---- MODULE Spec2Model ----
(***************************************************************************)
(* A model of the CARTA Python wrapper (carta/client.py, carta/util.py):   *)
(* the action dispatcher Session.call_action, the JSON argument encoder    *)
(* CartaEncoder, and the reply classification; and of the parameter        *)
(* validation of carta/validation.py: the descriptors, the validate        *)
(* decorator, and the Session and Image methods it wraps.                  *)
(*                                                                         *)
(* Text is a sequence of one-character strings, so that splitting,         *)
(* joining, escaping and parsing are computed character by character.      *)
(* The literal parts of an f-string are kept as single elements of the     *)
(* sequence.                                                               *)
(*                                                                         *)
(* Python values are tagged tuples:                                        *)
(*   <<"null">>  <<"bool", b>>  <<"int", n>>  <<"str", text>>              *)
(*   <<"list", seq of values>>  <<"dict", seq of <<key text, value>>>>     *)
(*   <<"macro", target text, variable text>>   (carta.util.Macro)          *)
(*   <<"ndarray", seq of values>>              (a numpy array)             *)
(*   <<"object">>                              (anything json cannot dump) *)
(***************************************************************************)
EXTENDS Integers, Sequences, FiniteSets, TLC

VARIABLES session, last, image

vars == <<session, last, image>>

----------------------------------------------------------------------------
(* Bounds of the model *)

MaxPathLen == 5
MaxListLen == 2

----------------------------------------------------------------------------
(* Text helpers *)

Contains(text, c) == \E i \in 1..Len(text) : text[i] = c

\* s occurs in text as a contiguous run
IsSubstring(s, text) ==
    \E i \in 0..(Len(text) - Len(s)) :
        \A j \in 1..Len(s) : text[i + j] = s[j]

\* all texts over alphabet A of length at most n
RECURSIVE TextsUpTo(_, _)
TextsUpTo(A, n) ==
    IF n = 0 THEN {<<>>}
    ELSE LET shorter == TextsUpTo(A, n - 1)
         IN  shorter \cup {Append(t, c) : t \in shorter, c \in A}

\* str.find(sep): the first index of sep in text (text holds sep)
Find(text, sep) ==
    CHOOSE k \in 1..Len(text) : text[k] = sep /\ \A m \in 1..(k - 1) : text[m] # sep

\* str.split(sep): the pieces of text between occurrences of sep
RECURSIVE Split(_, _)

SplitAt(text, sep, i) ==
    <<SubSeq(text, 1, i - 1)>> \o Split(SubSeq(text, i + 1, Len(text)), sep)

Split(text, sep) ==
    IF ~Contains(text, sep) THEN <<text>> ELSE SplitAt(text, sep, Find(text, sep))

\* sep.join(parts)
RECURSIVE Join(_, _)
Join(parts, sep) ==
    IF Len(parts) = 0 THEN <<>>
    ELSE IF Len(parts) = 1 THEN parts[1]
    ELSE parts[1] \o sep \o Join(Tail(parts), sep)

----------------------------------------------------------------------------
(* json.dumps(args, cls=CartaEncoder): the encoder *)

DigitChar == <<"0", "1", "2", "3", "4", "5", "6", "7", "8", "9">>

Digits == {DigitChar[i] : i \in 1..10}

DigitValue(c) == (CHOOSE i \in 1..10 : DigitChar[i] = c) - 1

\* repr of a natural number
RECURSIVE NatToText(_)
NatToText(n) ==
    IF n < 10 THEN <<DigitChar[n + 1]>>
    ELSE NatToText(n \div 10) \o <<DigitChar[(n % 10) + 1]>>

IntToText(n) == IF n < 0 THEN <<"-">> \o NatToText(-n) ELSE NatToText(n)

\* json.encoder.py_encode_basestring_ascii on printable ASCII text
RECURSIVE EscapeText(_)
EscapeText(text) ==
    IF Len(text) = 0 THEN <<>>
    ELSE LET c == Head(text)
             e == IF c = "\"" THEN <<"\\", "\"">>
                  ELSE IF c = "\\" THEN <<"\\", "\\">>
                  ELSE <<c>>
         IN  e \o EscapeText(Tail(text))

QuoteText(text) == <<"\"">> \o EscapeText(text) \o <<"\"">>

macroTarget == <<"m", "a", "c", "r", "o", "T", "a", "r", "g", "e", "t">>

macroVariable == <<"m", "a", "c", "r", "o", "V", "a", "r", "i", "a", "b", "l", "e">>

Macro(target, variable) == <<"macro", target, variable>>

\* the placeholder with its two values exchanged
CartaEncoder_defaultSwapped(obj) ==
    IF obj[1] = "macro"
    THEN [ok |-> TRUE,
          val |-> <<"dict", << <<macroTarget, <<"str", obj[3]>> >>,
                               <<macroVariable, <<"str", obj[2]>> >> >> >>]
    ELSE IF obj[1] = "ndarray"
    THEN [ok |-> TRUE, val |-> <<"list", obj[2]>>]
    ELSE [ok |-> FALSE, val |-> <<"null">>]

\* CartaEncoder.default(obj): called by the encoder for a value json cannot
\* dump natively; ok = FALSE stands for the TypeError of JSONEncoder.default
CartaEncoder_default(obj) ==
    IF obj[1] = "macro"
    THEN [ok |-> TRUE,
          val |-> <<"dict", << <<macroTarget, <<"str", obj[2]>> >>,
                               <<macroVariable, <<"str", obj[3]>> >> >> >>]
    ELSE IF obj[1] = "ndarray"
    THEN [ok |-> TRUE, val |-> <<"list", obj[2]>>]
    ELSE [ok |-> FALSE, val |-> <<"null">>]

DumpFailed == [ok |-> FALSE, text |-> <<>>]

\* the array or object text: open, the items joined with ", ", close
Bracketed(open, items, close) ==
    IF \A i \in 1..Len(items) : items[i].ok
    THEN [ok |-> TRUE,
          text |-> <<open>> \o Join([i \in 1..Len(items) |-> items[i].text], <<",", " ">>)
                   \o <<close>>]
    ELSE DumpFailed

\* "key": value
KeyValue(key, item) == [ok |-> item.ok, text |-> QuoteText(key) \o <<":", " ">> \o item.text]

RECURSIVE dumps(_)

\* a value json cannot dump natively goes through CartaEncoder.default
DumpDefault(d) == IF d.ok THEN dumps(d.val) ELSE DumpFailed

\* json.dumps(v, cls=CartaEncoder) with the default separators ", " and ": "
dumps(v) ==
    CASE v[1] = "null" -> [ok |-> TRUE, text |-> <<"n", "u", "l", "l">>]
      [] v[1] = "bool" -> [ok |-> TRUE,
                           text |-> IF v[2] THEN <<"t", "r", "u", "e">>
                                    ELSE <<"f", "a", "l", "s", "e">>]
      [] v[1] = "int"  -> [ok |-> TRUE, text |-> IntToText(v[2])]
      [] v[1] = "str"  -> [ok |-> TRUE, text |-> QuoteText(v[2])]
      [] v[1] = "list" -> Bracketed("[", [i \in 1..Len(v[2]) |-> dumps(v[2][i])], "]")
      [] v[1] = "dict" ->
            Bracketed("{", [i \in 1..Len(v[2]) |-> KeyValue(v[2][i][1], dumps(v[2][i][2]))], "}")
      [] OTHER -> DumpDefault(CartaEncoder_default(v))

----------------------------------------------------------------------------
(* json.loads(text): the decoder.  Texts of the model hold no \u escape.  *)

Whitespace == {" ", "\t", "\n", "\r"}

RECURSIVE SkipWs(_, _)
SkipWs(s, i) ==
    IF i <= Len(s) /\ s[i] \in Whitespace THEN SkipWs(s, i + 1) ELSE i

\* the end of the run of digits starting at i (i itself when there is none)
RECURSIVE SkipDigits(_, _)
SkipDigits(s, i) ==
    IF i <= Len(s) /\ s[i] \in Digits THEN SkipDigits(s, i + 1) ELSE i

RECURSIVE TextToNat(_)
TextToNat(ds) ==
    IF Len(ds) = 0 THEN 0
    ELSE 10 * TextToNat(SubSeq(ds, 1, Len(ds) - 1)) + DigitValue(ds[Len(ds)])

HasAt(s, i, lit) ==
    /\ i + Len(lit) - 1 <= Len(s)
    /\ \A j \in 1..Len(lit) : s[i + j - 1] = lit[j]

ParseFailed == [ok |-> FALSE, val |-> <<"null">>, pos |-> 0]

Parsed(v, p) == [ok |-> TRUE, val |-> v, pos |-> p]

EscapeOf(c) ==
    CASE c = "\"" -> "\""
      [] c = "\\" -> "\\"
      [] c = "/"  -> "/"
      [] c = "n"  -> "\n"
      [] c = "r"  -> "\r"
      [] c = "t"  -> "\t"
      [] c = "b"  -> "<08>"
      [] c = "f"  -> "<0c>"
      [] OTHER    -> ""

\* json.decoder.py_scanstring from the character after the opening quote
RECURSIVE ParseString(_, _, _)
ParseString(s, i, acc) ==
    IF i > Len(s) THEN ParseFailed
    ELSE IF s[i] = "\"" THEN Parsed(<<"str", acc>>, i + 1)
    ELSE IF s[i] = "\\"
    THEN IF i + 1 > Len(s) \/ EscapeOf(s[i + 1]) = "" THEN ParseFailed
         ELSE ParseString(s, i + 2, Append(acc, EscapeOf(s[i + 1])))
    ELSE IF s[i] \in {"\t", "\n", "\r"} THEN ParseFailed
    ELSE ParseString(s, i + 1, Append(acc, s[i]))

\* json.scanner NUMBER_RE: (-?(?:0|[1-9]\d*))(\.\d+)?([eE][-+]?\d+)?
\* d0: start of the digits, iend: end of the integer part, fend: end of the
\* fraction, e0: start of the exponent digits (fend when there is no e/E)
NumberValue(s, i, d0, iend, eend) ==
    IF eend = iend
    THEN Parsed(<<"int", IF s[i] = "-" THEN -TextToNat(SubSeq(s, d0, iend - 1))
                         ELSE TextToNat(SubSeq(s, d0, iend - 1))>>, iend)
    ELSE Parsed(<<"float", SubSeq(s, i, eend - 1)>>, eend)

NumberExpDigits(s, i, d0, iend, fend, e0, eend) ==
    NumberValue(s, i, d0, iend, IF e0 > fend /\ eend > e0 THEN eend ELSE fend)

NumberExp(s, i, d0, iend, fend, e0) ==
    NumberExpDigits(s, i, d0, iend, fend, e0, SkipDigits(s, e0))

NumberFrac(s, i, d0, iend, fend) ==
    NumberExp(s, i, d0, iend, fend,
              IF fend <= Len(s) /\ s[fend] \in {"e", "E"}
              THEN (IF fend + 1 <= Len(s) /\ s[fend + 1] \in {"-", "+"}
                    THEN fend + 2 ELSE fend + 1)
              ELSE fend)

NumberInt(s, i, d0, iend) ==
    IF iend = d0 THEN ParseFailed
    ELSE NumberFrac(s, i, d0, iend,
                    IF iend + 1 <= Len(s) /\ s[iend] = "." /\ s[iend + 1] \in Digits
                    THEN SkipDigits(s, iend + 1) ELSE iend)

NumberSign(s, i, d0) ==
    NumberInt(s, i, d0,
              IF d0 <= Len(s) /\ s[d0] = "0" THEN d0 + 1 ELSE SkipDigits(s, d0))

ParseNumber(s, i) == NumberSign(s, i, IF s[i] = "-" THEN i + 1 ELSE i)

RECURSIVE ParseValue(_, _)
RECURSIVE ParseArrayItems(_, _, _)
RECURSIVE ParseObjectItems(_, _, _)

\* dict[key] = value: a repeated key keeps its place and takes the new value
DictSet(pairs, key, value) ==
    IF \E k \in 1..Len(pairs) : pairs[k][1] = key
    THEN [k \in 1..Len(pairs) |->
            IF pairs[k][1] = key THEN <<key, value>> ELSE pairs[k]]
    ELSE Append(pairs, <<key, value>>)

\* json.decoder.JSONArray: after the value v, at position j
ArrayNext(s, acc, v, j) ==
    IF j > Len(s) THEN ParseFailed
    ELSE IF s[j] = "]" THEN Parsed(<<"list", Append(acc, v.val)>>, j + 1)
    ELSE IF s[j] = "," THEN ParseArrayItems(s, SkipWs(s, j + 1), Append(acc, v.val))
    ELSE ParseFailed

ArrayValue(s, acc, v) ==
    IF ~v.ok THEN ParseFailed ELSE ArrayNext(s, acc, v, SkipWs(s, v.pos))

\* json.decoder.JSONObject: after the pair that made the dict d, at position j
ObjectNext(s, d, j) ==
    IF j > Len(s) THEN ParseFailed
    ELSE IF s[j] = "}" THEN Parsed(<<"dict", d>>, j + 1)
    ELSE IF s[j] = "," THEN ParseObjectItems(s, SkipWs(s, j + 1), d)
    ELSE ParseFailed

ObjectValue(s, acc, k, v) ==
    IF ~v.ok THEN ParseFailed
    ELSE ObjectNext(s, DictSet(acc, k.val[2], v.val), SkipWs(s, v.pos))

ObjectColon(s, acc, k, c) ==
    IF c > Len(s) \/ s[c] # ":" THEN ParseFailed
    ELSE ObjectValue(s, acc, k, ParseValue(s, SkipWs(s, c + 1)))

ObjectKey(s, acc, k) ==
    IF ~k.ok THEN ParseFailed ELSE ObjectColon(s, acc, k, SkipWs(s, k.pos))

ObjectOpen(s, j) ==
    IF j <= Len(s) /\ s[j] = "}" THEN Parsed(<<"dict", <<>>>>, j + 1)
    ELSE ParseObjectItems(s, j, <<>>)

ArrayOpen(s, j) ==
    IF j <= Len(s) /\ s[j] = "]" THEN Parsed(<<"list", <<>>>>, j + 1)
    ELSE ParseArrayItems(s, j, <<>>)

\* json.scanner.py_make_scanner._scan_once
ParseValue(s, i) ==
    IF i > Len(s) THEN ParseFailed
    ELSE CASE s[i] = "\"" -> ParseString(s, i + 1, <<>>)
           [] s[i] = "{" -> ObjectOpen(s, SkipWs(s, i + 1))
           [] s[i] = "[" -> ArrayOpen(s, SkipWs(s, i + 1))
           [] HasAt(s, i, <<"n", "u", "l", "l">>) -> Parsed(<<"null">>, i + 4)
           [] HasAt(s, i, <<"t", "r", "u", "e">>) -> Parsed(<<"bool", TRUE>>, i + 4)
           [] HasAt(s, i, <<"f", "a", "l", "s", "e">>) -> Parsed(<<"bool", FALSE>>, i + 5)
           [] s[i] \in Digits -> ParseNumber(s, i)
           [] s[i] = "-" /\ i + 1 <= Len(s) /\ s[i + 1] \in Digits -> ParseNumber(s, i)
           [] HasAt(s, i, <<"N", "a", "N">>) -> Parsed(<<"float", <<"N", "a", "N">>>>, i + 3)
           [] HasAt(s, i, <<"I", "n", "f", "i", "n", "i", "t", "y">>) ->
                Parsed(<<"float", SubSeq(s, i, i + 7)>>, i + 8)
           [] HasAt(s, i, <<"-", "I", "n", "f", "i", "n", "i", "t", "y">>) ->
                Parsed(<<"float", SubSeq(s, i, i + 8)>>, i + 9)
           [] OTHER -> ParseFailed

\* json.decoder.JSONArray after the opening bracket, at a value
ParseArrayItems(s, i, acc) == ArrayValue(s, acc, ParseValue(s, i))

\* json.decoder.JSONObject after the opening brace, at a key
ParseObjectItems(s, i, acc) ==
    IF i > Len(s) \/ s[i] # "\"" THEN ParseFailed
    ELSE ObjectKey(s, acc, ParseString(s, i + 1, <<>>))

\* JSONDecoder.decode: the value, then nothing but whitespace
DecodeEnd(text, v) ==
    IF v.ok /\ SkipWs(text, v.pos) = Len(text) + 1
    THEN [ok |-> TRUE, val |-> v.val]
    ELSE [ok |-> FALSE, val |-> <<"null">>]

\* json.loads(text): ok = FALSE stands for json.decoder.JSONDecodeError
loads(text) == DecodeEnd(text, ParseValue(text, SkipWs(text, 1)))

----------------------------------------------------------------------------
(* carta.client.Session *)

\* the path split at its first "." instead
JoinFirst(parts) == <<parts[1], Join(Tail(parts), <<".">>)>>

\* '.'.join(parts[:-1]), parts[-1]
JoinLast(parts) == <<Join(SubSeq(parts, 1, Len(parts) - 1), <<".">>), parts[Len(parts)]>>

\* Session.split_path(path)
split_path(path) == JoinLast(Split(path, "."))

\* a close that leaves the browser running
closeNothing(sess) == [browser |-> sess.browser, events |-> <<"Session.close">>]

\* Session.close(): the browser after it, and what it did
close(sess) ==
    [browser |-> IF sess.browser # "none" THEN "closed" ELSE "none",
     events  |-> <<"Session.close">>
                 \o (IF sess.browser # "none" THEN <<"browser.close">> ELSE <<>>)]

\* no keyword arguments
NoKwargs == [k \in {} |-> FALSE]

\* a keyword option that is on unless it is given
KwGetDefaultTrue(kwargs, key) == IF key \in DOMAIN kwargs THEN kwargs[key] ELSE TRUE

\* kwargs.pop(key, False) / kwargs.get(key, False)
KwGet(kwargs, key) == IF key \in DOMAIN kwargs THEN kwargs[key] ELSE FALSE

\* repr(str) of printable ASCII text, quoted with q
RECURSIVE ReprBody(_, _)
ReprBody(text, q) ==
    IF Len(text) = 0 THEN <<>>
    ELSE (IF Head(text) = "\\" THEN <<"\\", "\\">>
          ELSE IF Head(text) = q THEN <<"\\", q>>
          ELSE <<Head(text)>>)
         \o ReprBody(Tail(text), q)

ReprQuoted(text, q) == <<q>> \o ReprBody(text, q) \o <<q>>

repr(text) ==
    ReprQuoted(text, IF Contains(text, "'") /\ ~Contains(text, "\"") THEN "\"" ELSE "'")

\* a description that leaves the parameters out
ActionDescriptionNoParameters(path, action, parameters) ==
    <<"CARTA scripting action ">> \o path \o <<".">> \o action

\* the f-string carta_action_description
ActionDescription(path, action, parameters) ==
    <<"CARTA scripting action ">> \o path \o <<".">> \o action
        \o <<" called with parameters ">> \o parameters

\* the transport's answer to one request: a grpc.RpcError with its details,
\* or an ActionReply
RpcError(details) ==
    [rpcerror |-> TRUE, details |-> details,
     success |-> FALSE, message |-> <<>>, response |-> <<>>]

ActionReply(success, message, response) ==
    [rpcerror |-> FALSE, details |-> <<>>,
     success |-> success, message |-> message, response |-> response]

None == <<"null">>

\* what an invocation on the transport did: the channel of the with block
\* is opened, the stub is called once, the channel is closed
\* a channel that is never closed
RpcEventsNoClose == <<"channel.open", "CallAction">>

RpcEvents == <<"channel.open", "CallAction", "channel.close">>

\* the request sent a second time before the failure is raised
RaiseAfterRetry(sess, call, request, kind, message, events, cl) ==
    [calls |-> <<call>>, requests |-> <<request, request>>,
     events |-> events \o events \o cl.events,
     outcome |-> kind, message |-> message, value |-> None, browser |-> cl.browser]

\* self.close(); raise kind(message)
Raise(sess, call, request, kind, message, events, cl) ==
    [calls |-> <<call>>, requests |-> <<request>>, events |-> events \o cl.events,
     outcome |-> kind, message |-> message, value |-> None, browser |-> cl.browser]

\* return value
Return(sess, call, request, value, events) ==
    [calls |-> <<call>>, requests |-> <<request>>, events |-> events,
     outcome |-> "return", message |-> <<>>, value |-> value, browser |-> sess.browser]

\* the response string returned as it came
DecodedRaw(sess, call, request, desc, env, decoded) ==
    Return(sess, call, request, <<"str", env.response>>, RpcEvents \o <<"json.loads">>)

\* lines 202-208: the decoded response, or CartaBadResponse
Decoded(sess, call, request, desc, env, decoded) ==
    IF ~decoded.ok
    THEN Raise(sess, call, request, "CartaBadResponse",
               desc \o <<" received a response which could not be decoded.\nResponse string: ">>
                    \o repr(env.response) \o <<"\nError: ", "JSONDecodeError">>,
               RpcEvents \o <<"json.loads">>, close(sess))
    ELSE Return(sess, call, request, decoded.val, RpcEvents \o <<"json.loads">>)

\* a reply counted as failed only when it brings no response
ReplyFailedUnlessResponse(env) == ~env.success /\ env.response = <<>>

\* line 192: not response.success
ReplyFailed(env) == ~env.success

\* lines 186-208: what the invocation makes of the transport's answer
Classify(sess, call, request, desc, response_expected, env) ==
    IF env.rpcerror
    THEN Raise(sess, call, request, "CartaActionFailed",
               desc \o <<" failed: ">> \o env.details, RpcEvents, close(sess))
    ELSE IF ReplyFailed(env)
    THEN Raise(sess, call, request, "CartaActionFailed",
               desc \o <<" failed: ">> \o env.message, RpcEvents, close(sess))
    ELSE IF env.response = <<>>
    THEN IF response_expected
         THEN Raise(sess, call, request, "CartaBadResponse",
                    desc \o <<" expected a response, but did not receive one.">>,
                    RpcEvents, close(sess))
         ELSE Return(sess, call, request, None, RpcEvents)
    ELSE Decoded(sess, call, request, desc, env, loads(env.response))

\* lines 168-185: the request, once the path is split and the arguments dumped
Send(sess, call, sp, parameters, env) ==
    IF ~parameters.ok
    THEN [calls |-> <<call>>, requests |-> <<>>, events |-> <<>>,
          outcome |-> "TypeError", message |-> <<>>, value |-> None,
          browser |-> sess.browser]
    ELSE Classify(sess, call,
                  [session_id |-> sess.session_id,
                   path       |-> sp[1],
                   action     |-> sp[2],
                   parameters |-> parameters.text,
                   async      |-> KwGet(call.kwargs, "async")],
                  ActionDescription(sp[1], sp[2], parameters.text),
                  KwGet(call.kwargs, "response_expected"), env)

\* Session.call_action(path, *args, **kwargs) against a transport that answers
\* env.  The result holds what the invocation did, in order (events), the
\* requests it handed to the stub, how it ended (outcome: "return" or the
\* class of the exception raised), and the browser it leaves.
call_action(sess, path, args, kwargs, env) ==
    Send(sess, [path |-> path, args |-> args, kwargs |-> kwargs],
         split_path(path), dumps(<<"list", args>>), env)

fetchParameter == <<"f", "e", "t", "c", "h", "P", "a", "r", "a", "m", "e", "t", "e", "r">>

\* the keyword arguments response_expected=True
ResponseExpected == [response_expected |-> TRUE]

\* the read sent without response_expected
FetchParameterUnexpected(sess, sp, env) ==
    call_action(sess, fetchParameter, <<Macro(sp[1], sp[2])>>, NoKwargs, env)

\* lines 226-227: macro = Macro(path, parameter), then the call
FetchParameter(sess, sp, env) ==
    call_action(sess, fetchParameter, <<Macro(sp[1], sp[2])>>, ResponseExpected, env)

\* Session.get_value(path)
get_value(sess, path, env) == FetchParameter(sess, split_path(path), env)

----------------------------------------------------------------------------
(* Inputs of the model *)

SessionIds == {1, 2}

\* "openFile", "s.act", "frameMap[4].r.act"
Paths ==
    { <<"o", "p", "e", "n", "F", "i", "l", "e">>,
      <<"s", ".", "a", "c", "t">>,
      <<"f", "r", "a", "m", "e", "M", "a", "p", "[", "4", "]", ".", "r", ".", "a", "c", "t">> }

ArgLists ==
    { <<>>,
      << <<"int", 10>>, <<"str", <<"a", "\"">>>> >>,
      << Macro(<<"s">>, <<"v">>), <<"bool", TRUE>> >>,
      << <<"ndarray", << <<"int", 1>>, <<"int", 2>> >> >> >>,
      << <<"object">> >> }

KwargsSet ==
    { NoKwargs,
      ResponseExpected,
      [response_expected |-> FALSE, async |-> TRUE] }

\* the response strings "", "42", "{\"a\":1}", "[4, \"a\"]", "nope", "{\"a\":1"
R42 == <<"4", "2">>

RObject == <<"{", "\"", "a", "\"", ":", "1", "}">>

RArray == <<"[", "4", ",", " ", "\"", "a", "\"", "]">>

RNope == <<"n", "o", "p", "e">>

RTruncated == <<"{", "\"", "a", "\"", ":", "1">>

Responses == {<<>>, R42, RObject, RArray, RNope, RTruncated}

ServerMessage == <<"d", "e", "n", "i", "e", "d">>

ErrorDetails == <<"u", "n", "a", "v", "a", "i", "l", "a", "b", "l", "e">>

Envs ==
    {RpcError(ErrorDetails)}
        \cup {ActionReply(FALSE, ServerMessage, r) : r \in {<<>>, R42, RNope}}
        \cup {ActionReply(TRUE, <<>>, r) : r \in Responses}

----------------------------------------------------------------------------
(* The state machine: a session, and the operation the script has just run *)
(* on it.  The script looks at the result of one operation (last) and      *)
(* drops it before it runs the next.                                       *)

\* what the script sees of an operation: its name, its input and its result
Done(op, input, env, r) ==
    [op |-> op, input |-> input, env |-> env, before |-> session.browser,
     calls |-> r.calls, requests |-> r.requests, events |-> r.events,
     outcome |-> r.outcome, message |-> r.message, value |-> r.value]

NoOp == [op |-> "none"]

\* Session(host, port, session_id, browser=None), or browser.new_session(...)
\* the script holds no image handle yet
NoImage == [open |-> FALSE]

Init ==
    /\ session \in [session_id : SessionIds, browser : {"none", "open"}]
    /\ last = NoOp
    /\ image = NoImage

\* the operation has run with result r
Ran(op, input, env, r) ==
    /\ session' = [session EXCEPT !.browser = r.browser]
    /\ last' = Done(op, input, env, r)
    /\ UNCHANGED image

\* session.call_action(path, *args, **kwargs)
CallActionOver(paths, arglists, kwargsset, envs) ==
    /\ last = NoOp
    /\ \E path \in paths, args \in arglists, kwargs \in kwargsset, env \in envs :
        Ran("call_action", [path |-> path, args |-> args, kwargs |-> kwargs], env,
            call_action(session, path, args, kwargs, env))

\* session.get_value(path)
GetValueOver(paths, envs) ==
    /\ last = NoOp
    /\ \E path \in paths, env \in envs :
        Ran("get_value", [path |-> path], env, get_value(session, path, env))

SessionCallAction == CallActionOver(Paths, ArgLists, KwargsSet, Envs)

SessionGetValue == GetValueOver(Paths, Envs)

\* session.close()
SessionClose ==
    /\ last = NoOp
    /\ session' = [session EXCEPT !.browser = close(session).browser]
    /\ last' = [op |-> "close", before |-> session.browser, events |-> close(session).events]
    /\ UNCHANGED image

\* the script goes on to its next statement
Continue ==
    /\ last # NoOp
    /\ last' = NoOp
    /\ UNCHANGED <<session, image>>

Next == SessionCallAction \/ SessionGetValue \/ SessionClose \/ Continue

Spec == Init /\ [][Next]_vars

----------------------------------------------------------------------------
(* Paths: every text over PathAlphabet of length at most MaxPathLen is     *)
(* called as an action and read as an attribute.                           *)

PathAlphabet == {"a", ".", "["}

AllPaths == TextsUpTo(PathAlphabet, MaxPathLen)

\* a reply with no response
EmptyReply == ActionReply(TRUE, <<>>, <<>>)

SplitEnvs == {EmptyReply, ActionReply(TRUE, <<>>, R42), RpcError(ErrorDetails)}

SplitCallAction == CallActionOver(AllPaths, {<<>>}, {NoKwargs}, {EmptyReply})

SplitGetValue == GetValueOver(AllPaths, SplitEnvs)

NextSplit == SplitCallAction \/ SplitGetValue \/ Continue

SpecSplit == Init /\ [][NextSplit]_vars

----------------------------------------------------------------------------
(* Arguments: every value of EncValues is sent as the argument of an       *)
(* action, alone and after a Macro.                                        *)

\* "", "a", "a\"", "\\"
EncStrings == {<<>>, <<"a">>, <<"a", "\"">>, <<"\\">>}

EncMacros == {Macro(t, v) : t, v \in EncStrings}

EncAtoms ==
    {<<"null">>, <<"bool", FALSE>>, <<"int", 0>>, <<"int", -305>>}
        \cup {<<"str", t>> : t \in EncStrings}

\* what a list argument holds
ListItems ==
    { Macro(<<"a", "\"">>, <<"\\">>),
      Macro(<<>>, <<"a">>),
      <<"int", 42>>,
      <<"str", <<"a", "\"">>>>,
      <<"list", << Macro(<<"a">>, <<"a">>) >> >> }

RECURSIVE ListsUpTo(_)
ListsUpTo(n) ==
    IF n = 0 THEN {<<>>}
    ELSE ListsUpTo(n - 1) \cup {Append(l, x) : l \in ListsUpTo(n - 1), x \in ListItems}

EncValues == EncMacros \cup EncAtoms \cup {<<"list", l>> : l \in ListsUpTo(MaxListLen)}

EncArgLists ==
    {<<v>> : v \in EncValues} \cup {<<Macro(<<"s">>, <<"v">>), v>> : v \in EncValues}

EncodeCallAction ==
    CallActionOver({<<"s", ".", "a", "c", "t">>}, EncArgLists, {NoKwargs}, {EmptyReply})

NextEncode == EncodeCallAction \/ Continue

SpecEncode == Init /\ [][NextEncode]_vars

----------------------------------------------------------------------------
(* Python values as carta/validation.py reads them *)

RECURSIVE Pow10(_)
Pow10(k) == IF k = 0 THEN 1 ELSE 10 * Pow10(k - 1)

AllDigits(text) == \A i \in 1..Len(text) : text[i] \in Digits

NoFloat == [ok |-> FALSE, num |-> 0, den |-> 1]

\* the number written with integer part ip and fraction fp, as num / den
FloatOfParts(neg, ip, fp) ==
    IF Len(ip) + Len(fp) = 0 \/ ~AllDigits(ip) \/ ~AllDigits(fp) THEN NoFloat
    ELSE [ok  |-> TRUE,
          num |-> IF neg THEN -TextToNat(ip \o fp) ELSE TextToNat(ip \o fp),
          den |-> Pow10(Len(fp))]

FloatOfBody(neg, body) ==
    IF Contains(body, ".")
    THEN FloatOfParts(neg, SubSeq(body, 1, Find(body, ".") - 1),
                      SubSeq(body, Find(body, ".") + 1, Len(body)))
    ELSE FloatOfParts(neg, body, <<>>)

\* float(text) for a text without whitespace, exponent, underscore, "inf" or
\* "nan": [sign] digits [. digits] with at least one digit; ok = FALSE stands
\* for the ValueError of float
float_str(text) ==
    IF Len(text) > 0 /\ text[1] \in {"-", "+"}
    THEN FloatOfBody(text[1] = "-", Tail(text))
    ELSE FloatOfBody(FALSE, text)

IsNumber(v) == v[1] \in {"int", "bool", "float"}

\* the number a numeric value stands for, as num / den
Num(v) ==
    CASE v[1] = "int"   -> [ok |-> TRUE, num |-> v[2], den |-> 1]
      [] v[1] = "bool"  -> [ok |-> TRUE, num |-> IF v[2] THEN 1 ELSE 0, den |-> 1]
      [] v[1] = "float" -> float_str(v[2])
      [] OTHER          -> NoFloat

\* a < b and a <= b on numbers
NumLess(a, b) == a.num * b.den < b.num * a.den

NumLessEq(a, b) == a.num * b.den <= b.num * a.den

\* a == b in Python: numbers (bool, int, float) compare by value, everything
\* else by type and content
PyEq(a, b) ==
    IF IsNumber(a) /\ IsNumber(b)
    THEN Num(a).num * Num(b).den = Num(b).num * Num(a).den
    ELSE a = b

\* value in options
PyIn(value, options) == \E i \in 1..Len(options) : PyEq(value, options[i])

True == <<"T", "r", "u", "e">>

False == <<"F", "a", "l", "s", "e">>

RECURSIVE pyrepr(_)

\* str(v), as an f-string formats it
pystr(v) == IF v[1] = "str" THEN v[2] ELSE pyrepr(v)

PyDictItem(kv) == repr(kv[1]) \o <<":", " ">> \o pyrepr(kv[2])

\* repr(v); a float prints as it was written
pyrepr(v) ==
    CASE v[1] = "null"  -> <<"N", "o", "n", "e">>
      [] v[1] = "bool"  -> (IF v[2] THEN True ELSE False)
      [] v[1] = "int"   -> IntToText(v[2])
      [] v[1] = "float" -> v[2]
      [] v[1] = "str"   -> repr(v[2])
      [] v[1] = "list"  ->
            <<"[">> \o Join([i \in 1..Len(v[2]) |-> pyrepr(v[2][i])], <<",", " ">>) \o <<"]">>
      [] v[1] = "dict"  ->
            <<"{">> \o Join([i \in 1..Len(v[2]) |-> PyDictItem(v[2][i])], <<",", " ">>) \o <<"}">>
      [] v[1] = "macro" ->
            <<"Macro('">> \o v[2] \o <<"', '">> \o v[3] \o <<"')">>
      [] v[1] = "lambda" -> <<"<function <lambda>>">>
      [] OTHER          -> <<"<object>">>

UpperChar == <<"A", "B", "C", "D", "E", "F", "G", "H", "I", "J", "K", "L", "M",
               "N", "O", "P", "Q", "R", "S", "T", "U", "V", "W", "X", "Y", "Z">>

LowerChar == <<"a", "b", "c", "d", "e", "f", "g", "h", "i", "j", "k", "l", "m",
               "n", "o", "p", "q", "r", "s", "t", "u", "v", "w", "x", "y", "z">>

LowerOf(c) ==
    IF \E i \in 1..26 : UpperChar[i] = c
    THEN LowerChar[CHOOSE i \in 1..26 : UpperChar[i] = c]
    ELSE c

\* str.lower()
Lower(text) == [i \in 1..Len(text) |-> LowerOf(text[i])]

\* str.upper()
UpperOf(c) ==
    IF \E i \in 1..26 : LowerChar[i] = c
    THEN UpperChar[CHOOSE i \in 1..26 : LowerChar[i] = c]
    ELSE c

Upper(text) == [i \in 1..Len(text) |-> UpperOf(text[i])]

----------------------------------------------------------------------------
(* carta.validation: the parameter descriptors.  A descriptor is a tagged  *)
(* tuple; validate(d, value) is what d.validate(value, parent) does: it    *)
(* returns (kind "ok") or raises (kind "TypeError", "ValueError" or        *)
(* "AttributeError", with the message), and trace lists the descriptors    *)
(* whose validate ran, in the order they were entered.                     *)

\* a regular expression of the source: its text, and the runs
\* <<characters, count>> a match is made of.  \d+ is searched for, and a
\* search finds \d+ exactly where it finds \d.
NoRegex == [given |-> FALSE, source |-> <<>>, atoms |-> <<>>]

ReDigits == [given |-> TRUE, source |-> <<"\\", "d", "+">>, atoms |-> << <<Digits, 1>> >>]

HexChars == Digits \cup {"a", "b", "c", "d", "e", "f"}

ReHex6 ==
    [given  |-> TRUE,
     source |-> <<"#", "[", "0", "-", "9", "a", "-", "f", "]", "{", "6", "}">>,
     atoms  |-> << <<{"#"}, 1>>, <<HexChars, 6>> >>]

ReHex3 ==
    [given  |-> TRUE,
     source |-> <<"#", "[", "0", "-", "9", "a", "-", "f", "]", "{", "3", "}">>,
     atoms  |-> << <<{"#"}, 1>>, <<HexChars, 3>> >>]

\* the character sets a match goes through, one per character
RECURSIVE Expand(_)
Expand(atoms) ==
    IF Len(atoms) = 0 THEN <<>>
    ELSE [i \in 1..atoms[1][2] |-> atoms[1][1]] \o Expand(Tail(atoms))

CharIn(c, S, ignorecase) ==
    c \in S \/ (ignorecase /\ (LowerOf(c) \in S \/ UpperOf(c) \in S))

SearchSets(sets, text, ignorecase) ==
    \E i \in 0..(Len(text) - Len(sets)) :
        \A j \in 1..Len(sets) : CharIn(text[i + j], sets[j], ignorecase)

\* re.search(regex, text, flags) is not None
re_search(regex, text, ignorecase) == SearchSets(Expand(regex.atoms), text, ignorecase)

\* Number.EXCLUDE, INCLUDE_MIN, INCLUDE_MAX, INCLUDE = range(4)
EXCLUDE == 0
INCLUDE_MIN == 1
INCLUDE_MAX == 2
INCLUDE == 3

\* the constructors
String(regex, ignorecase) == <<"String", regex, ignorecase>>

Number(min, max, interval) == <<"Number", min, max, interval>>

Boolean == <<"Boolean">>

NoneParameter == <<"NoneParameter">>

OneOf(options, normalize) == <<"OneOf", options, normalize>>

Union(options, description) == <<"Union", options, description>>

\* Constant(clazz): the options are the values of the properties of clazz
Constant(clazz, options) == <<"Constant", options, clazz>>

NoneOr(param) == Union(<<param, NoneParameter>>, None)

IterableOf(param) == <<"IterableOf", param>>

TupleColor == <<"TupleColor">>

Ok(trace) == [kind |-> "ok", message |-> <<>>, trace |-> trace]

Fail(kind, message, trace) == [kind |-> kind, message |-> message, trace |-> trace]

\* str(type(value))
TypeName(v) ==
    CASE v[1] = "null"  -> <<"<class 'NoneType'>">>
      [] v[1] = "bool"  -> <<"<class 'bool'>">>
      [] v[1] = "int"   -> <<"<class 'int'>">>
      [] v[1] = "float" -> <<"<class 'float'>">>
      [] v[1] = "str"   -> <<"<class 'str'>">>
      [] v[1] = "list"  -> <<"<class 'list'>">>
      [] v[1] = "dict"  -> <<"<class 'dict'>">>
      [] OTHER          -> <<"<class 'object'>">>

\* String.validate
String_validate(d, value) ==
    IF value[1] # "str"
    THEN Fail("TypeError",
              pystr(value) \o <<" has type ">> \o TypeName(value)
                  \o <<" but a string was expected.">>, <<d>>)
    ELSE IF d[2].given /\ ~re_search(d[2], value[2], d[3])
    THEN Fail("ValueError", value[2] \o <<" does not match ">> \o d[2].source, <<d>>)
    ELSE Ok(<<d>>)

\* bool(interval & INCLUDE_MIN), bool(interval & INCLUDE_MAX)
min_included(d) == (d[4] % 2) = 1

max_included(d) == ((d[4] \div 2) % 2) = 1

\* lines 129-135: the maximum.  An order comparison of a number with a value
\* that is none raises TypeError (two strings, which Python orders, do not
\* meet in the model).
Number_max(d, value) ==
    IF d[3][1] = "null" THEN Ok(<<d>>)
    ELSE IF ~IsNumber(value) \/ ~IsNumber(d[3])
    THEN Fail("TypeError", <<"'>' not supported">>, <<d>>)
    ELSE IF max_included(d)
    THEN IF NumLess(Num(d[3]), Num(value))
         THEN Fail("ValueError",
                   pystr(value) \o <<" is greater than maximum value ">>
                       \o pystr(d[3]) \o <<".">>, <<d>>)
         ELSE Ok(<<d>>)
    ELSE IF NumLessEq(Num(d[3]), Num(value))
         THEN Fail("ValueError",
                   pystr(value) \o <<" is greater than or equal to maximum value ">>
                       \o pystr(d[3]) \o <<".">>, <<d>>)
         ELSE Ok(<<d>>)

\* the lower bound compared as if it were always included
Number_minAlwaysIncluded(d, value) ==
    IF d[2][1] = "null" THEN Number_max(d, value)
    ELSE IF ~IsNumber(value) \/ ~IsNumber(d[2])
    THEN Fail("TypeError", <<"'<' not supported">>, <<d>>)
    ELSE IF NumLess(Num(value), Num(d[2]))
         THEN Fail("ValueError",
                   pystr(value) \o <<" is smaller than minimum value ">>
                       \o pystr(d[2]) \o <<".">>, <<d>>)
         ELSE Number_max(d, value)

\* lines 121-127: the minimum, then the maximum
Number_min(d, value) ==
    IF d[2][1] = "null" THEN Number_max(d, value)
    ELSE IF ~IsNumber(value) \/ ~IsNumber(d[2])
    THEN Fail("TypeError", <<"'<' not supported">>, <<d>>)
    ELSE IF min_included(d)
    THEN IF NumLess(Num(value), Num(d[2]))
         THEN Fail("ValueError",
                   pystr(value) \o <<" is smaller than minimum value ">>
                       \o pystr(d[2]) \o <<".">>, <<d>>)
         ELSE Number_max(d, value)
    ELSE IF NumLessEq(Num(value), Num(d[2]))
         THEN Fail("ValueError",
                   pystr(value) \o <<" is smaller than or equal to minimum value ">>
                       \o pystr(d[2]) \o <<".">>, <<d>>)
         ELSE Number_max(d, value)

\* Number.validate: float(value) is tried first, for its TypeError
Number_validate(d, value) ==
    IF value[1] = "str"
    THEN IF float_str(value[2]).ok THEN Number_min(d, value)
         ELSE Fail("ValueError",
                   <<"could not convert string to float: ">> \o repr(value[2]), <<d>>)
    ELSE IF ~IsNumber(value)
    THEN Fail("TypeError",
              pystr(value) \o <<" has type ">> \o TypeName(value)
                  \o <<" but a number was expected.">>, <<d>>)
    ELSE Number_min(d, value)

\* Boolean.validate: value not in (0, 1)
Boolean_validate(d, value) ==
    IF ~PyIn(value, << <<"int", 0>>, <<"int", 1>> >>)
    THEN Fail("TypeError", pystr(value) \o <<" is not a boolean value.">>, <<d>>)
    ELSE Ok(<<d>>)

\* NoneParameter.validate
NoneParameter_validate(d, value) ==
    IF value[1] # "null"
    THEN Fail("ValueError", pystr(value) \o <<" is not None.">>, <<d>>)
    ELSE Ok(<<d>>)

\* sep.join(parts) for a long list, joined half by half
RECURSIVE JoinAll(_, _)
JoinAll(parts, sep) ==
    IF Len(parts) = 0 THEN <<>>
    ELSE IF Len(parts) = 1 THEN parts[1]
    ELSE JoinAll(SubSeq(parts, 1, Len(parts) \div 2), sep) \o sep
         \o JoinAll(SubSeq(parts, (Len(parts) \div 2) + 1, Len(parts)), sep)

\* the grave accent of the documentation markup, a character that a string
\* of this module cannot hold
Backtick == "<60>"

RECURSIVE description(_)

\* ' or '.join(o.description for o in options)
OptionDescriptions(options) ==
    Join([i \in 1..Len(options) |-> description(options[i])], <<" or ">>)

\* Number.description
Number_description(d) ==
    Join(<< <<"a number">> >>
         \o (IF d[2][1] # "null"
             THEN << <<"greater than">>
                     \o (IF min_included(d) THEN <<" or equal to">> ELSE <<>>)
                     \o <<" ">> \o pystr(d[2]) >>
                  \o (IF d[3][1] # "null" THEN << <<"and">> >> ELSE <<>>)
             ELSE <<>>)
         \o (IF d[3][1] # "null"
             THEN << <<"smaller than">>
                     \o (IF max_included(d) THEN <<" or equal to">> ELSE <<>>)
                     \o <<" ">> \o pystr(d[3]) >>
             ELSE <<>>),
         <<" ">>)

\* the description property of each descriptor
description(d) ==
    CASE d[1] = "String" ->
            (IF Len(d[2].source) > 0
             THEN <<Backtick, "a string matching", Backtick, " ", Backtick, Backtick>>
                  \o d[2].source \o <<Backtick, Backtick>>
             ELSE <<"a string">>)
      [] d[1] = "Number" -> Number_description(d)
      [] d[1] = "Boolean" -> <<"a boolean">>
      [] d[1] = "NoneParameter" -> <<"None">>
      [] d[1] = "OneOf" ->
            <<"one of ">> \o JoinAll([i \in 1..Len(d[2]) |-> pystr(d[2][i])], <<",", " ">>)
      [] d[1] = "Constant" ->
            <<Backtick, "a class property of", Backtick, " ", ":obj:", Backtick>>
                \o d[3] \o <<Backtick>>
      [] d[1] = "Union" ->
            (IF d[3][1] = "str" /\ Len(d[3][2]) > 0 THEN d[3][2]
             ELSE OptionDescriptions(d[2]))
      [] d[1] = "IterableOf" -> <<"an iterable of ">> \o description(d[2])
      [] d[1] = "TupleColor" -> <<"an HTML color tuple">>
      [] OTHER -> <<"UNKNOWN">>

\* OneOf.validate once the value is normalized
OneOf_member(d, value) ==
    IF ~PyIn(value, d[2])
    THEN Fail("ValueError", pystr(value) \o <<" is not ">> \o description(d), <<d>>)
    ELSE Ok(<<d>>)

\* OneOf.validate (and Constant.validate, which has no normalize): normalize
\* is "none" or "lower", for lambda x: x.lower()
OneOf_validate(d, value) ==
    IF d[1] = "OneOf" /\ d[3] = "lower"
    THEN IF value[1] # "str"
         THEN Fail("AttributeError", <<"object has no attribute 'lower'">>, <<d>>)
         ELSE OneOf_member(d, <<"str", Lower(value[2])>>)
    ELSE OneOf_member(d, value)

\* [ \t\n\r\f\v], the characters \s matches in the texts of the model
ReWhitespace == {" ", "\t", "\n", "\r"}

NotWhitespace(c) == c \notin ReWhitespace

\* re.sub('\s', '', value)
StripWhitespace(text) == SelectSeq(text, NotWhitespace)

rgb == <<"r", "g", "b">>

hsl == <<"h", "s", "l">>

\* group 1 of (hsla?|rgba?)\( at the start of text, <<>> when it is not there
FuncOf(text) ==
    IF HasAt(text, 1, hsl \o <<"a", "(">>) THEN hsl \o <<"a">>
    ELSE IF HasAt(text, 1, hsl \o <<"(">>) THEN hsl
    ELSE IF HasAt(text, 1, rgb \o <<"a", "(">>) THEN rgb \o <<"a">>
    ELSE IF HasAt(text, 1, rgb \o <<"(">>) THEN rgb
    ELSE <<>>

\* str.rfind(c), 0 when c is not in text
LastIndex(text, c) ==
    IF Contains(text, c)
    THEN CHOOSE i \in 1..Len(text) : text[i] = c /\ \A j \in (i + 1)..Len(text) : text[j] # c
    ELSE 0

\* a check of TupleColor that passed, or the ValueError it raised
ColorOk == [ok |-> TRUE, message |-> <<>>]

ColorError(message) == [ok |-> FALSE, message |-> message]

\* min <= f <= max for the float f
FloatBetween(f, min, max) == f.ok /\ min * f.den <= f.num /\ f.num <= max * f.den

IsPercentage(param) ==
    /\ Len(param) > 0
    /\ param[Len(param)] = "%"
    /\ FloatBetween(float_str(SubSeq(param, 1, Len(param) - 1)), 0, 100)

\* TupleColor._assert_length
assert_length(params, number) ==
    IF Len(params) # number
    THEN ColorError(<<"expected ">> \o NatToText(number) \o <<" parameters but got ">>
                    \o NatToText(Len(params)) \o <<".">>)
    ELSE ColorOk

\* TupleColor._assert_percentage
assert_percentage(param) ==
    IF ~IsPercentage(param)
    THEN ColorError(param \o <<" is not a valid percentage.">>)
    ELSE ColorOk

\* TupleColor._assert_between
assert_between(param, min, max) ==
    IF ~FloatBetween(float_str(param), min, max)
    THEN ColorError(param \o <<" is not a number between ">> \o NatToText(min)
                    \o <<" and ">> \o NatToText(max) \o <<".">>)
    ELSE ColorOk

\* the first check that fails, or the last one
RECURSIVE FirstError(_)
FirstError(checks) ==
    IF Len(checks) = 1 \/ ~checks[1].ok THEN checks[1] ELSE FirstError(Tail(checks))

\* an rgb tuple that is accepted when each component alone is a percentage
\* or a number
validate_rgbMixed(params) ==
    IF ~assert_length(params, 3).ok THEN assert_length(params, 3)
    ELSE IF \A i \in 1..3 :
                assert_percentage(params[i]).ok \/ assert_between(params[i], 0, 255).ok
    THEN ColorOk
    ELSE ColorError(<<"parameters must either all be percentages or all be numbers between 0 and 255.">>)

\* TupleColor._validate_rgb
validate_rgb(params) ==
    IF ~assert_length(params, 3).ok THEN assert_length(params, 3)
    ELSE IF \/ \A i \in 1..3 : assert_percentage(params[i]).ok
            \/ \A i \in 1..3 : assert_between(params[i], 0, 255).ok
    THEN ColorOk
    ELSE ColorError(<<"parameters must either all be percentages or all be numbers between 0 and 255.">>)

\* TupleColor._validate_rgba
validate_rgba(params) ==
    IF ~assert_length(params, 4).ok THEN assert_length(params, 4)
    ELSE FirstError(<<validate_rgb(SubSeq(params, 1, 3)), assert_between(params[4], 0, 1)>>)

\* TupleColor._validate_hsl
validate_hsl(params) ==
    IF ~assert_length(params, 3).ok THEN assert_length(params, 3)
    ELSE FirstError(<<assert_between(params[1], 0, 360), assert_percentage(params[2]),
                      assert_percentage(params[3])>>)

\* TupleColor._validate_hsla
validate_hsla(params) ==
    IF ~assert_length(params, 4).ok THEN assert_length(params, 4)
    ELSE FirstError(<<validate_hsl(SubSeq(params, 1, 3)), assert_between(params[4], 0, 1)>>)

\* getattr(self, f"_validate_{func}")(params.split(","))
validate_func(func, params) ==
    IF func = rgb THEN validate_rgb(params)
    ELSE IF func = rgb \o <<"a">> THEN validate_rgba(params)
    ELSE IF func = hsl THEN validate_hsl(params)
    ELSE validate_hsla(params)

\* lines 403-406: the ValueError of the tuple's check, wrapped
TupleColor_checked(d, text, func, check) ==
    IF ~check.ok
    THEN Fail("ValueError",
              text \o <<" is not a valid ">> \o Upper(func) \o <<" color tuple: ">>
                  \o check.message, <<d>>)
    ELSE Ok(<<d>>)

\* lines 398-404: the match of (hsla?|rgba?)\((.*)\) and its two groups
TupleColor_match(d, text, func) ==
    IF func = <<>> \/ LastIndex(text, ")") <= Len(func) + 1
    THEN Fail("ValueError", text \o <<" is not ">> \o description(d) \o <<".">>, <<d>>)
    ELSE TupleColor_checked(d, text, func,
            validate_func(func,
                Split(SubSeq(text, Len(func) + 2, LastIndex(text, ")") - 1), ",")))

\* TupleColor.validate
TupleColor_validate(d, value) ==
    IF value[1] # "str"
    THEN Fail("TypeError", <<"expected string or bytes-like object">>, <<d>>)
    ELSE TupleColor_match(d, StripWhitespace(value[2]), FuncOf(StripWhitespace(value[2])))

RECURSIVE validate(_, _)
RECURSIVE Union_options(_, _, _, _)
RECURSIVE IterableOf_items(_, _, _, _)

\* a union that goes on to the later options after a success
Union_triedAll(d, value, i, trace, r) ==
    IF i = Len(d[2]) /\ r.kind = "ok" THEN Ok(trace \o r.trace)
    ELSE IF i = Len(d[2])
    THEN Fail("ValueError",
              pystr(value) \o <<" is not ">> \o description(d) \o <<".">>, trace \o r.trace)
    ELSE Union_options(d, value, i + 1, trace \o r.trace)

\* lines 249-255: option i has been tried with result r; any exception is
\* passed over
Union_tried(d, value, i, trace, r) ==
    IF r.kind = "ok" THEN Ok(trace \o r.trace)
    ELSE Union_options(d, value, i + 1, trace \o r.trace)

\* lines 248-258: the options from the i-th on
Union_options(d, value, i, trace) ==
    IF i > Len(d[2])
    THEN Fail("ValueError",
              pystr(value) \o <<" is not ">> \o description(d) \o <<".">>, trace)
    ELSE Union_tried(d, value, i, trace, validate(d[2][i], value))

\* Union.validate
Union_validate(d, value) == Union_options(d, value, 1, <<d>>)

IsIterable(value) == value[1] \in {"list", "ndarray", "str", "dict"}

\* what `for v in value` goes through
Items(value) ==
    CASE value[1] = "str"  -> [i \in 1..Len(value[2]) |-> <<"str", <<value[2][i]>> >>]
      [] value[1] = "dict" -> [i \in 1..Len(value[2]) |-> <<"str", value[2][i][1]>>]
      [] OTHER             -> value[2]

\* an iteration that goes through every element and raises the last failure
IterableOf_checkedAll(d, items, i, trace, r) ==
    IF i = Len(items) /\ r.kind # "ok" THEN Fail(r.kind, r.message, trace \o r.trace)
    ELSE IterableOf_items(d, items, i + 1, trace \o r.trace)

\* line 337: element i has been validated with result r
IterableOf_checked(d, items, i, trace, r) ==
    IF r.kind # "ok" THEN Fail(r.kind, r.message, trace \o r.trace)
    ELSE IterableOf_items(d, items, i + 1, trace \o r.trace)

\* lines 336-337: the elements from the i-th on
IterableOf_items(d, items, i, trace) ==
    IF i > Len(items) THEN Ok(trace)
    ELSE IterableOf_checked(d, items, i, trace, validate(d[2], items[i]))

\* IterableOf.validate
IterableOf_validate(d, value) ==
    IF ~IsIterable(value)
    THEN Fail("TypeError", <<"object is not iterable">>, <<d>>)
    ELSE IterableOf_items(d, Items(value), 1, <<d>>)

\* d.validate(value, parent) for the descriptors that do not read parent
validate(d, value) ==
    CASE d[1] = "String"        -> String_validate(d, value)
      [] d[1] = "Number"        -> Number_validate(d, value)
      [] d[1] = "Boolean"       -> Boolean_validate(d, value)
      [] d[1] = "NoneParameter" -> NoneParameter_validate(d, value)
      [] d[1] = "OneOf"         -> OneOf_validate(d, value)
      [] d[1] = "Constant"      -> OneOf_validate(d, value)
      [] d[1] = "Union"         -> Union_validate(d, value)
      [] d[1] = "IterableOf"    -> IterableOf_validate(d, value)
      [] d[1] = "TupleColor"    -> TupleColor_validate(d, value)
      [] OTHER                  -> Fail("NotImplementedError", <<>>, <<d>>)

\* COLORNAMES, the 147 named colours
COLORNAMES ==
    << <<"str", <<"a", "l", "i", "c", "e", "b", "l", "u", "e">>>>,
       <<"str", <<"a", "n", "t", "i", "q", "u", "e", "w", "h", "i", "t", "e">>>>,
       <<"str", <<"a", "q", "u", "a">>>>,
       <<"str", <<"a", "q", "u", "a", "m", "a", "r", "i", "n", "e">>>>,
       <<"str", <<"a", "z", "u", "r", "e">>>>,
       <<"str", <<"b", "e", "i", "g", "e">>>>,
       <<"str", <<"b", "i", "s", "q", "u", "e">>>>,
       <<"str", <<"b", "l", "a", "c", "k">>>>,
       <<"str", <<"b", "l", "a", "n", "c", "h", "e", "d", "a", "l", "m", "o", "n", "d">>>>,
       <<"str", <<"b", "l", "u", "e">>>>,
       <<"str", <<"b", "l", "u", "e", "v", "i", "o", "l", "e", "t">>>>,
       <<"str", <<"b", "r", "o", "w", "n">>>>,
       <<"str", <<"b", "u", "r", "l", "y", "w", "o", "o", "d">>>>,
       <<"str", <<"c", "a", "d", "e", "t", "b", "l", "u", "e">>>>,
       <<"str", <<"c", "h", "a", "r", "t", "r", "e", "u", "s", "e">>>>,
       <<"str", <<"c", "h", "o", "c", "o", "l", "a", "t", "e">>>>,
       <<"str", <<"c", "o", "r", "a", "l">>>>,
       <<"str", <<"c", "o", "r", "n", "f", "l", "o", "w", "e", "r", "b", "l", "u", "e">>>>,
       <<"str", <<"c", "o", "r", "n", "s", "i", "l", "k">>>>,
       <<"str", <<"c", "r", "i", "m", "s", "o", "n">>>>,
       <<"str", <<"c", "y", "a", "n">>>>,
       <<"str", <<"d", "a", "r", "k", "b", "l", "u", "e">>>>,
       <<"str", <<"d", "a", "r", "k", "c", "y", "a", "n">>>>,
       <<"str", <<"d", "a", "r", "k", "g", "o", "l", "d", "e", "n", "r", "o", "d">>>>,
       <<"str", <<"d", "a", "r", "k", "g", "r", "a", "y">>>>,
       <<"str", <<"d", "a", "r", "k", "g", "r", "e", "y">>>>,
       <<"str", <<"d", "a", "r", "k", "g", "r", "e", "e", "n">>>>,
       <<"str", <<"d", "a", "r", "k", "k", "h", "a", "k", "i">>>>,
       <<"str", <<"d", "a", "r", "k", "m", "a", "g", "e", "n", "t", "a">>>>,
       <<"str", <<"d", "a", "r", "k", "o", "l", "i", "v", "e", "g", "r", "e", "e", "n">>>>,
       <<"str", <<"d", "a", "r", "k", "o", "r", "a", "n", "g", "e">>>>,
       <<"str", <<"d", "a", "r", "k", "o", "r", "c", "h", "i", "d">>>>,
       <<"str", <<"d", "a", "r", "k", "r", "e", "d">>>>,
       <<"str", <<"d", "a", "r", "k", "s", "a", "l", "m", "o", "n">>>>,
       <<"str", <<"d", "a", "r", "k", "s", "e", "a", "g", "r", "e", "e", "n">>>>,
       <<"str", <<"d", "a", "r", "k", "s", "l", "a", "t", "e", "b", "l", "u", "e">>>>,
       <<"str", <<"d", "a", "r", "k", "s", "l", "a", "t", "e", "g", "r", "a", "y">>>>,
       <<"str", <<"d", "a", "r", "k", "s", "l", "a", "t", "e", "g", "r", "e", "y">>>>,
       <<"str", <<"d", "a", "r", "k", "t", "u", "r", "q", "u", "o", "i", "s", "e">>>>,
       <<"str", <<"d", "a", "r", "k", "v", "i", "o", "l", "e", "t">>>>,
       <<"str", <<"d", "e", "e", "p", "p", "i", "n", "k">>>>,
       <<"str", <<"d", "e", "e", "p", "s", "k", "y", "b", "l", "u", "e">>>>,
       <<"str", <<"d", "i", "m", "g", "r", "a", "y">>>>,
       <<"str", <<"d", "i", "m", "g", "r", "e", "y">>>>,
       <<"str", <<"d", "o", "d", "g", "e", "r", "b", "l", "u", "e">>>>,
       <<"str", <<"f", "i", "r", "e", "b", "r", "i", "c", "k">>>>,
       <<"str", <<"f", "l", "o", "r", "a", "l", "w", "h", "i", "t", "e">>>>,
       <<"str", <<"f", "o", "r", "e", "s", "t", "g", "r", "e", "e", "n">>>>,
       <<"str", <<"f", "u", "c", "h", "s", "i", "a">>>>,
       <<"str", <<"g", "a", "i", "n", "s", "b", "o", "r", "o">>>>,
       <<"str", <<"g", "h", "o", "s", "t", "w", "h", "i", "t", "e">>>>,
       <<"str", <<"g", "o", "l", "d">>>>,
       <<"str", <<"g", "o", "l", "d", "e", "n", "r", "o", "d">>>>,
       <<"str", <<"g", "r", "a", "y">>>>,
       <<"str", <<"g", "r", "e", "y">>>>,
       <<"str", <<"g", "r", "e", "e", "n">>>>,
       <<"str", <<"g", "r", "e", "e", "n", "y", "e", "l", "l", "o", "w">>>>,
       <<"str", <<"h", "o", "n", "e", "y", "d", "e", "w">>>>,
       <<"str", <<"h", "o", "t", "p", "i", "n", "k">>>>,
       <<"str", <<"i", "n", "d", "i", "a", "n", "r", "e", "d">>>>,
       <<"str", <<"i", "n", "d", "i", "g", "o">>>>,
       <<"str", <<"i", "v", "o", "r", "y">>>>,
       <<"str", <<"k", "h", "a", "k", "i">>>>,
       <<"str", <<"l", "a", "v", "e", "n", "d", "e", "r">>>>,
       <<"str", <<"l", "a", "v", "e", "n", "d", "e", "r", "b", "l", "u", "s", "h">>>>,
       <<"str", <<"l", "a", "w", "n", "g", "r", "e", "e", "n">>>>,
       <<"str", <<"l", "e", "m", "o", "n", "c", "h", "i", "f", "f", "o", "n">>>>,
       <<"str", <<"l", "i", "g", "h", "t", "b", "l", "u", "e">>>>,
       <<"str", <<"l", "i", "g", "h", "t", "c", "o", "r", "a", "l">>>>,
       <<"str", <<"l", "i", "g", "h", "t", "c", "y", "a", "n">>>>,
       <<"str", <<"l", "i", "g", "h", "t", "g", "o", "l", "d", "e", "n", "r", "o", "d", "y", "e", "l", "l", "o", "w">>>>,
       <<"str", <<"l", "i", "g", "h", "t", "g", "r", "a", "y">>>>,
       <<"str", <<"l", "i", "g", "h", "t", "g", "r", "e", "y">>>>,
       <<"str", <<"l", "i", "g", "h", "t", "g", "r", "e", "e", "n">>>>,
       <<"str", <<"l", "i", "g", "h", "t", "p", "i", "n", "k">>>>,
       <<"str", <<"l", "i", "g", "h", "t", "s", "a", "l", "m", "o", "n">>>>,
       <<"str", <<"l", "i", "g", "h", "t", "s", "e", "a", "g", "r", "e", "e", "n">>>>,
       <<"str", <<"l", "i", "g", "h", "t", "s", "k", "y", "b", "l", "u", "e">>>>,
       <<"str", <<"l", "i", "g", "h", "t", "s", "l", "a", "t", "e", "g", "r", "a", "y">>>>,
       <<"str", <<"l", "i", "g", "h", "t", "s", "l", "a", "t", "e", "g", "r", "e", "y">>>>,
       <<"str", <<"l", "i", "g", "h", "t", "s", "t", "e", "e", "l", "b", "l", "u", "e">>>>,
       <<"str", <<"l", "i", "g", "h", "t", "y", "e", "l", "l", "o", "w">>>>,
       <<"str", <<"l", "i", "m", "e">>>>,
       <<"str", <<"l", "i", "m", "e", "g", "r", "e", "e", "n">>>>,
       <<"str", <<"l", "i", "n", "e", "n">>>>,
       <<"str", <<"m", "a", "g", "e", "n", "t", "a">>>>,
       <<"str", <<"m", "a", "r", "o", "o", "n">>>>,
       <<"str", <<"m", "e", "d", "i", "u", "m", "a", "q", "u", "a", "m", "a", "r", "i", "n", "e">>>>,
       <<"str", <<"m", "e", "d", "i", "u", "m", "b", "l", "u", "e">>>>,
       <<"str", <<"m", "e", "d", "i", "u", "m", "o", "r", "c", "h", "i", "d">>>>,
       <<"str", <<"m", "e", "d", "i", "u", "m", "p", "u", "r", "p", "l", "e">>>>,
       <<"str", <<"m", "e", "d", "i", "u", "m", "s", "e", "a", "g", "r", "e", "e", "n">>>>,
       <<"str", <<"m", "e", "d", "i", "u", "m", "s", "l", "a", "t", "e", "b", "l", "u", "e">>>>,
       <<"str", <<"m", "e", "d", "i", "u", "m", "s", "p", "r", "i", "n", "g", "g", "r", "e", "e", "n">>>>,
       <<"str", <<"m", "e", "d", "i", "u", "m", "t", "u", "r", "q", "u", "o", "i", "s", "e">>>>,
       <<"str", <<"m", "e", "d", "i", "u", "m", "v", "i", "o", "l", "e", "t", "r", "e", "d">>>>,
       <<"str", <<"m", "i", "d", "n", "i", "g", "h", "t", "b", "l", "u", "e">>>>,
       <<"str", <<"m", "i", "n", "t", "c", "r", "e", "a", "m">>>>,
       <<"str", <<"m", "i", "s", "t", "y", "r", "o", "s", "e">>>>,
       <<"str", <<"m", "o", "c", "c", "a", "s", "i", "n">>>>,
       <<"str", <<"n", "a", "v", "a", "j", "o", "w", "h", "i", "t", "e">>>>,
       <<"str", <<"n", "a", "v", "y">>>>,
       <<"str", <<"o", "l", "d", "l", "a", "c", "e">>>>,
       <<"str", <<"o", "l", "i", "v", "e">>>>,
       <<"str", <<"o", "l", "i", "v", "e", "d", "r", "a", "b">>>>,
       <<"str", <<"o", "r", "a", "n", "g", "e">>>>,
       <<"str", <<"o", "r", "a", "n", "g", "e", "r", "e", "d">>>>,
       <<"str", <<"o", "r", "c", "h", "i", "d">>>>,
       <<"str", <<"p", "a", "l", "e", "g", "o", "l", "d", "e", "n", "r", "o", "d">>>>,
       <<"str", <<"p", "a", "l", "e", "g", "r", "e", "e", "n">>>>,
       <<"str", <<"p", "a", "l", "e", "t", "u", "r", "q", "u", "o", "i", "s", "e">>>>,
       <<"str", <<"p", "a", "l", "e", "v", "i", "o", "l", "e", "t", "r", "e", "d">>>>,
       <<"str", <<"p", "a", "p", "a", "y", "a", "w", "h", "i", "p">>>>,
       <<"str", <<"p", "e", "a", "c", "h", "p", "u", "f", "f">>>>,
       <<"str", <<"p", "e", "r", "u">>>>,
       <<"str", <<"p", "i", "n", "k">>>>,
       <<"str", <<"p", "l", "u", "m">>>>,
       <<"str", <<"p", "o", "w", "d", "e", "r", "b", "l", "u", "e">>>>,
       <<"str", <<"p", "u", "r", "p", "l", "e">>>>,
       <<"str", <<"r", "e", "d">>>>,
       <<"str", <<"r", "o", "s", "y", "b", "r", "o", "w", "n">>>>,
       <<"str", <<"r", "o", "y", "a", "l", "b", "l", "u", "e">>>>,
       <<"str", <<"s", "a", "d", "d", "l", "e", "b", "r", "o", "w", "n">>>>,
       <<"str", <<"s", "a", "l", "m", "o", "n">>>>,
       <<"str", <<"s", "a", "n", "d", "y", "b", "r", "o", "w", "n">>>>,
       <<"str", <<"s", "e", "a", "g", "r", "e", "e", "n">>>>,
       <<"str", <<"s", "e", "a", "s", "h", "e", "l", "l">>>>,
       <<"str", <<"s", "i", "e", "n", "n", "a">>>>,
       <<"str", <<"s", "i", "l", "v", "e", "r">>>>,
       <<"str", <<"s", "k", "y", "b", "l", "u", "e">>>>,
       <<"str", <<"s", "l", "a", "t", "e", "b", "l", "u", "e">>>>,
       <<"str", <<"s", "l", "a", "t", "e", "g", "r", "a", "y">>>>,
       <<"str", <<"s", "l", "a", "t", "e", "g", "r", "e", "y">>>>,
       <<"str", <<"s", "n", "o", "w">>>>,
       <<"str", <<"s", "p", "r", "i", "n", "g", "g", "r", "e", "e", "n">>>>,
       <<"str", <<"s", "t", "e", "e", "l", "b", "l", "u", "e">>>>,
       <<"str", <<"t", "a", "n">>>>,
       <<"str", <<"t", "e", "a", "l">>>>,
       <<"str", <<"t", "h", "i", "s", "t", "l", "e">>>>,
       <<"str", <<"t", "o", "m", "a", "t", "o">>>>,
       <<"str", <<"t", "u", "r", "q", "u", "o", "i", "s", "e">>>>,
       <<"str", <<"v", "i", "o", "l", "e", "t">>>>,
       <<"str", <<"w", "h", "e", "a", "t">>>>,
       <<"str", <<"w", "h", "i", "t", "e">>>>,
       <<"str", <<"w", "h", "i", "t", "e", "s", "m", "o", "k", "e">>>>,
       <<"str", <<"y", "e", "l", "l", "o", "w">>>>,
       <<"str", <<"y", "e", "l", "l", "o", "w", "g", "r", "e", "e", "n">>>> >>

\* the values of the properties of carta.constants.Colormap
Colormap ==
    << <<"str", <<"B", "l", "u", "e", "s">>>>,
       <<"str", <<"B", "r", "B", "G">>>>,
       <<"str", <<"B", "u", "G", "n">>>>,
       <<"str", <<"B", "u", "P", "u">>>>,
       <<"str", <<"C", "M", "R", "m", "a", "p">>>>,
       <<"str", <<"G", "n", "B", "u">>>>,
       <<"str", <<"O", "r", "R", "d">>>>,
       <<"str", <<"P", "R", "G", "n">>>>,
       <<"str", <<"P", "i", "Y", "G">>>>,
       <<"str", <<"P", "u", "B", "u">>>>,
       <<"str", <<"P", "u", "B", "u", "G", "n">>>>,
       <<"str", <<"P", "u", "O", "r">>>>,
       <<"str", <<"P", "u", "R", "d">>>>,
       <<"str", <<"R", "d", "B", "u">>>>,
       <<"str", <<"R", "d", "G", "y">>>>,
       <<"str", <<"R", "d", "P", "u">>>>,
       <<"str", <<"R", "d", "Y", "l", "B", "u">>>>,
       <<"str", <<"R", "d", "Y", "l", "G", "n">>>>,
       <<"str", <<"W", "i", "s", "t", "i", "a">>>>,
       <<"str", <<"Y", "l", "G", "n">>>>,
       <<"str", <<"Y", "l", "G", "n", "B", "u">>>>,
       <<"str", <<"Y", "l", "O", "r", "B", "r">>>>,
       <<"str", <<"Y", "l", "O", "r", "R", "d">>>>,
       <<"str", <<"a", "c", "c", "e", "n", "t">>>>,
       <<"str", <<"a", "f", "m", "h", "o", "t">>>>,
       <<"str", <<"a", "u", "t", "u", "m", "n">>>>,
       <<"str", <<"b", "i", "n", "a", "r", "y">>>>,
       <<"str", <<"b", "o", "n", "e">>>>,
       <<"str", <<"b", "r", "g">>>>,
       <<"str", <<"b", "w", "r">>>>,
       <<"str", <<"c", "o", "o", "l">>>>,
       <<"str", <<"c", "o", "o", "l", "w", "a", "r", "m">>>>,
       <<"str", <<"c", "o", "p", "p", "e", "r">>>>,
       <<"str", <<"c", "u", "b", "e", "h", "e", "l", "i", "x">>>>,
       <<"str", <<"d", "a", "r", "k", "2">>>>,
       <<"str", <<"f", "l", "a", "g">>>>,
       <<"str", <<"g", "i", "s", "t", "_", "e", "a", "r", "t", "h">>>>,
       <<"str", <<"g", "i", "s", "t", "_", "g", "r", "a", "y">>>>,
       <<"str", <<"g", "i", "s", "t", "_", "h", "e", "a", "t">>>>,
       <<"str", <<"g", "i", "s", "t", "_", "n", "c", "a", "r">>>>,
       <<"str", <<"g", "i", "s", "t", "_", "r", "a", "i", "n", "b", "o", "w">>>>,
       <<"str", <<"g", "i", "s", "t", "_", "s", "t", "e", "r", "n">>>>,
       <<"str", <<"g", "i", "s", "t", "_", "y", "a", "r", "g">>>>,
       <<"str", <<"g", "n", "u", "p", "l", "o", "t">>>>,
       <<"str", <<"g", "n", "u", "p", "l", "o", "t", "2">>>>,
       <<"str", <<"g", "r", "a", "y">>>>,
       <<"str", <<"g", "r", "e", "e", "n", "s">>>>,
       <<"str", <<"g", "r", "e", "y", "s">>>>,
       <<"str", <<"h", "o", "t">>>>,
       <<"str", <<"h", "s", "v">>>>,
       <<"str", <<"i", "n", "f", "e", "r", "n", "o">>>>,
       <<"str", <<"j", "e", "t">>>>,
       <<"str", <<"m", "a", "g", "m", "a">>>>,
       <<"str", <<"n", "i", "p", "y", "_", "s", "p", "e", "c", "t", "r", "a", "l">>>>,
       <<"str", <<"o", "c", "e", "a", "n">>>>,
       <<"str", <<"o", "r", "a", "n", "g", "e", "s">>>>,
       <<"str", <<"p", "a", "i", "r", "e", "d">>>>,
       <<"str", <<"p", "a", "s", "t", "e", "l", "1">>>>,
       <<"str", <<"p", "a", "s", "t", "e", "l", "2">>>>,
       <<"str", <<"p", "i", "n", "k">>>>,
       <<"str", <<"p", "l", "a", "s", "m", "a">>>>,
       <<"str", <<"p", "r", "i", "s", "m">>>>,
       <<"str", <<"p", "u", "r", "p", "l", "e", "s">>>>,
       <<"str", <<"r", "a", "i", "n", "b", "o", "w">>>>,
       <<"str", <<"r", "e", "d", "s">>>>,
       <<"str", <<"s", "e", "i", "s", "m", "i", "c">>>>,
       <<"str", <<"s", "e", "t", "1">>>>,
       <<"str", <<"s", "e", "t", "2">>>>,
       <<"str", <<"s", "e", "t", "3">>>>,
       <<"str", <<"s", "p", "e", "c", "t", "r", "a", "l">>>>,
       <<"str", <<"s", "p", "r", "i", "n", "g">>>>,
       <<"str", <<"s", "u", "m", "m", "e", "r">>>>,
       <<"str", <<"t", "a", "b", "1", "0">>>>,
       <<"str", <<"t", "a", "b", "2", "0">>>>,
       <<"str", <<"t", "a", "b", "2", "0", "b">>>>,
       <<"str", <<"t", "a", "b", "2", "0", "c">>>>,
       <<"str", <<"t", "e", "r", "r", "a", "i", "n">>>>,
       <<"str", <<"v", "i", "r", "i", "d", "i", "s">>>>,
       <<"str", <<"w", "i", "n", "t", "e", "r">>>> >>

\* lambda v: v.lower(), which Color hands to OneOf as one more option
LambdaLower == <<"lambda", <<"l", "o", "w", "e", "r">>>>

\* Color(): the named colours, the two hex forms (re.IGNORECASE given as
\* ignorecase) and the colour tuples, under the description of line 422
Color ==
    Union(<< OneOf(COLORNAMES \o <<LambdaLower>>, "none"),
             String(ReHex6, TRUE),
             String(ReHex3, TRUE),
             TupleColor >>,
          <<"str", <<"an HTML color specification">>>>)

----------------------------------------------------------------------------
(* Descriptors: d.validate(value, parent) is run for the descriptors and   *)
(* values below; no descriptor of this part reads parent or the session.   *)

MaxBound == 3
MaxOptions == 2
MaxItems == 2
MaxParams == 4

InitValidate == Init /\ session = [session_id |-> 1, browser |-> "none"]

\* the script has run d.validate(value, self) with result r
Validated(d, value, r) ==
    /\ last' = [op |-> "validate", d |-> d, value |-> value,
                kind |-> r.kind, message |-> r.message, trace |-> r.trace]
    /\ UNCHANGED <<session, image>>

ValidateOver(ds, values) ==
    /\ last = NoOp
    /\ \E d \in ds, value \in values : Validated(d, value, validate(d, value))

\* Number(min, max, interval) for every pair of bounds and every interval flag
NumberBounds == {None} \cup {<<"int", n>> : n \in 0..MaxBound}

NumberDescriptors ==
    {Number(min, max, interval) :
        min \in NumberBounds, max \in NumberBounds,
        interval \in {EXCLUDE, INCLUDE_MIN, INCLUDE_MAX, INCLUDE}}

\* -1 .. MaxBound + 1, 0.5, 2.5, -0.5, True, and values that are no numbers
NumberValues ==
    {<<"int", n>> : n \in (-1)..(MaxBound + 1)}
        \cup { <<"float", <<"0", ".", "5">>>>, <<"float", <<"2", ".", "5">>>>,
               <<"float", <<"-", "0", ".", "5">>>>, <<"bool", TRUE>>,
               None, <<"str", <<"a">>>>, <<"str", <<"2">>>>, <<"list", <<>>>> }

ValidateNumber == ValidateOver(NumberDescriptors, NumberValues)

\* the descriptors a Union or an IterableOf is built from
ValDescriptors ==
    { String(NoRegex, FALSE),
      String(ReDigits, FALSE),
      Number(None, None, INCLUDE),
      Number(<<"int", 0>>, <<"int", 3>>, INCLUDE_MIN),
      Boolean,
      NoneParameter,
      OneOf(<< <<"str", <<"a">>>>, <<"int", 7>> >>, "none"),
      NoneOr(Boolean) }

ValValues ==
    { None, <<"int", 0>>, <<"int", 3>>, <<"int", 7>>, <<"bool", TRUE>>,
      <<"str", <<"a">>>>, <<"str", <<"7">>>>, <<"list", <<>>>> }

AThing == <<"str", <<"a thing">>>>

UnionDescriptors ==
    {Union(options, desc) :
        options \in TextsUpTo(ValDescriptors, MaxOptions), desc \in {None, AThing}}

ValidateUnion == ValidateOver(UnionDescriptors, ValValues)

IterableDescriptors == {IterableOf(d) : d \in ValDescriptors}

IterableValues ==
    {<<"list", l>> : l \in TextsUpTo(ValValues, MaxItems)}
        \cup {<<"str", <<"a", "7">>>>, <<"int", 7>>, None}

ValidateIterableOf == ValidateOver(IterableDescriptors, IterableValues)

\* colour texts: names, hex forms, and texts that are no colour
ColorTexts ==
    { <<"r", "e", "d">>, <<"R", "E", "D">>, <<"R", "e", "d">>,
      <<"r", "e", "b", "e", "c", "c", "a">>,
      <<"#", "f", "f", "0", "0", "0", "0">>, <<"#", "F", "F", "0", "0", "0", "0">>,
      <<"#", "f", "0", "0">>, <<"#", "f", "0">>, <<"f", "0", "0">>,
      <<"#", "g", "g", "g">>,
      <<"n", "o", "t", "a", "c", "o", "l", "o", "r">>, <<>>,
      <<"r", "g", "b", " ", "(", "2", "5", "5", ",", " ", "0", ",", " ", "0", ")">>,
      <<"R", "G", "B", "(", "2", "5", "5", ",", "0", ",", "0", ")">>,
      <<"r", "g", "b", "(", "2", "5", "5", ",", "0", ",", "0">>,
      <<"r", "g", "b", "2", "5", "5", ",", "0", ",", "0", ")">>,
      <<"h", "s", "v", "(", "0", ",", "0", ",", "0", ")">>,
      <<"r", "g", "b", "(", "1", "0", "0", "%", ",", "0", "%", ",", "0", "%", ")">>,
      <<"h", "s", "l", "(", "0", ",", "1", "0", "0", "%", ",", "5", "0", "%", ")">>,
      <<"r", "g", "b", "(", "2", "5", "5", ",", "0", ",", "0", ")">>,
      <<"r", "g", "b", "a", "(", "0", ",", "0", ",", "0", ",", "0", ".", "5", ")">>,
      <<"r", "g", "b", "(", "2", "5", "5", ",", "0", ")">>,
      <<"r", "g", "b", "(", "3", "0", "0", ",", "0", ",", "0", ")">>,
      <<"r", "g", "b", "(", "1", "0", "0", "%", ",", "0", ",", "0", ")">>,
      <<"#", "f", "f", "f", "f">>, <<"#", "f", "f", "0", "0", "0", "0", "0">>,
      <<"x", "#", "f", "0", "0">>, <<"#", "F", "0", "0">>,
      <<"r", "g", "b", "(", "2", "5", "5", ",", "0", ",", "0", ")", "x">> }

\* the components of a colour tuple
\* "0", "1.5", "400", "100%"
ColorParams == { <<"0">>, <<"1", ".", "5">>, <<"4", "0", "0">>, <<"1", "0", "0", "%">> }

ColorFuncs == {rgb, rgb \o <<"a">>, hsl, hsl \o <<"a">>}

\* func(p1,...,pn)
TupleText(func, params) == func \o <<"(">> \o Join(params, <<",">>) \o <<")">>

ColorTuples ==
    {<<func, params>> :
        func \in ColorFuncs, params \in TextsUpTo(ColorParams, MaxParams) \ {<<>>}}

ColorValues ==
    {<<"str", t>> : t \in ColorTexts}
        \cup {<<"str", TupleText(t[1], t[2])>> : t \in ColorTuples}
        \cup {None, <<"int", 5>>}

ValidateColor == ValidateOver({Color}, ColorValues)

NextValidate ==
    ValidateNumber \/ ValidateUnion \/ ValidateIterableOf \/ ValidateColor \/ Continue

SpecValidate == InitValidate /\ [][NextValidate]_vars

----------------------------------------------------------------------------
(* Methods that make several calls.  A method under way is a record: the   *)
(* session it runs on, the replies the transport still holds for it, the   *)
(* cached attributes of the image it runs on, the answers it has had, the  *)
(* descriptors it has run and whether the wrapped body was entered, what   *)
(* it has done so far (calls, requests, events), and how its last          *)
(* statement ended (outcome "return" with value, or the exception on its   *)
(* way up).                                                                *)

\* the attributes a handle has read so far: pairs <<name, value>>
NoCache == {}

Start(sess, cache, replies) ==
    [session_id |-> sess.session_id, browser |-> sess.browser,
     replies |-> replies, answers |-> <<>>, cache |-> cache,
     checks |-> <<>>, ran |-> FALSE,
     calls |-> <<>>, requests |-> <<>>, events |-> <<>>, files |-> <<>>,
     outcome |-> "return", message |-> <<>>, value |-> None]

Going(st) == st.outcome = "return"

\* the transport's next answer; it answers with an empty reply once the
\* replies listed are used up
NextReply(st) == IF st.replies = <<>> THEN EmptyReply ELSE Head(st.replies)

\* the call with result r comes after what the method did before
After(st, r) ==
    [session_id |-> st.session_id, browser |-> r.browser,
     replies |-> IF r.requests # <<>> /\ st.replies # <<>> THEN Tail(st.replies)
                 ELSE st.replies,
     answers |-> IF r.requests # <<>> THEN Append(st.answers, NextReply(st))
                 ELSE st.answers,
     cache |-> st.cache, checks |-> st.checks, ran |-> st.ran,
     calls |-> st.calls \o r.calls, requests |-> st.requests \o r.requests,
     events |-> st.events \o r.events, files |-> st.files,
     outcome |-> r.outcome, message |-> r.message, value |-> r.value]

\* session.call_action(path, *args, **kwargs) as the next statement
Call(st, path, args, kwargs) ==
    IF Going(st) THEN After(st, call_action(st, path, args, kwargs, NextReply(st))) ELSE st

\* session.get_value(path) as the next statement
Get(st, path) ==
    IF Going(st) THEN After(st, get_value(st, path, NextReply(st))) ELSE st

\* raise kind(message)
Throw(st, kind, message) ==
    [st EXCEPT !.outcome = kind, !.message = message, !.value = None]

\* return value
Result(st, value) == IF Going(st) THEN [st EXCEPT !.value = value] ELSE st

getFileList == <<"fileBrowserStore", ".", "getFileList">>

saveStartingDirectory == <<"fileBrowserStore", ".", "saveStartingDirectory">>

\* line 259: return f"/{directory}"
pwd_directory(st) ==
    IF Going(st) THEN Result(st, <<"str", <<"/">> \o pystr(st.value)>>) ELSE st

\* Session.pwd()
pwd(st) ==
    pwd_directory(
        Get(Call(st, getFileList,
                 <<Macro(<<"fileBrowserStore">>, <<"startingDirectory">>)>>, NoKwargs),
            <<"fileBrowserStore", ".", "fileList", ".", "directory">>))

\* line 247: return f"{self.pwd()}/{path}"
resolve_relative(st, path) ==
    IF Going(st) THEN Result(st, <<"str", st.value[2] \o <<"/">> \o path>>) ELSE st

\* Session.resolve_file_path(path)
resolve_file_path(st, path) ==
    IF ~Going(st) THEN st
    ELSE IF Len(path) > 0 /\ path[1] = "/" THEN Result(st, <<"str", path>>)
    ELSE resolve_relative(pwd(st), path)

\* lines 291-293: the directory is put back when the change did not take
cd_restore(st, full_path) ==
    IF Going(st) /\ st.value[2] # full_path
    THEN Result(Call(st, saveStartingDirectory, <<st.value>>, NoKwargs), None)
    ELSE Result(st, None)

\* lines 289-290
cd_save(st) ==
    IF Going(st)
    THEN cd_restore(pwd(Call(st, saveStartingDirectory, <<st.value>>, NoKwargs)),
                    st.value[2])
    ELSE st

\* Session.cd(path)
cd(st, path) == cd_save(resolve_file_path(st, path))

RECURSIVE RStripSlash(_)
RStripSlash(text) ==
    IF Len(text) > 0 /\ text[Len(text)] = "/"
    THEN RStripSlash(SubSeq(text, 1, Len(text) - 1))
    ELSE text

AllSlashes(text) == \A i \in 1..Len(text) : text[i] = "/"

\* posixpath.split(p)[0]
SplitHeadOf(head) == IF head # <<>> /\ ~AllSlashes(head) THEN RStripSlash(head) ELSE head

SplitHead(p) == SplitHeadOf(SubSeq(p, 1, LastIndex(p, "/")))

\* posixpath.split(p)[1]
SplitTail(p) == SubSeq(p, LastIndex(p, "/") + 1, Len(p))

\* a handle whose identifier is made up by the client
new_handleFabricated(st, image_id, file_name) ==
    IF Going(st) THEN Result(st, <<"image", <<"int", 0>>, file_name>>) ELSE st

\* line 680: return cls(session, image_id, file_name)
new_handle(st, image_id, file_name) ==
    IF Going(st) THEN Result(st, <<"image", image_id, file_name>>) ELSE st

\* the handle made without putting the directory back
new_cdSkipped(st, saved_pwd, file_name) ==
    IF Going(st) THEN new_handle(st, st.value, file_name) ELSE st

\* line 678: session.cd(saved_pwd)
new_cd(st, saved_pwd, file_name) ==
    IF Going(st) THEN new_handle(cd(st, saved_pwd), st.value, file_name) ELSE st

\* line 677: image_id = session.call_action(...)
new_open(st, path, hdu, append) ==
    IF Going(st)
    THEN new_cd(Call(st, IF append THEN <<"appendFile">> ELSE <<"openFile">>,
                     << <<"str", SplitHead(path)>>, <<"str", SplitTail(path)>>, hdu >>,
                     NoKwargs),
                st.value[2], SplitTail(path))
    ELSE st

\* lines 675-676: posixpath.split(path), saved_pwd = session.pwd()
new_pwd(st, hdu, append) ==
    IF Going(st) THEN new_open(pwd(st), st.value[2], hdu, append) ELSE st

\* Image.new(session, path, hdu, append)
Image_new(st, path, hdu, append) == new_pwd(resolve_file_path(st, path), hdu, append)

----------------------------------------------------------------------------
(* carta.client.Image: a handle is its identifier, its file name and the  *)
(* attributes it has read.                                                 *)

\* line 649: self._base_path = f"frameMap[{image_id}]"
base_path(image_id) == <<"frameMap[">> \o pystr(image_id) \o <<"]">>

\* the call forwarded without its keyword options
Image_call_actionNoKwargs(st, img, path, args, kwargs) ==
    Call(st, base_path(img.image_id) \o <<".">> \o path, args, NoKwargs)

\* Image.call_action(path, *args, **kwargs)
Image_call_action(st, img, path, args, kwargs) ==
    Call(st, base_path(img.image_id) \o <<".">> \o path, args, kwargs)

\* Image.get_value(path)
Image_get_value(st, img, path) == Get(st, base_path(img.image_id) \o <<".">> \o path)

\* the paths read by the cached properties
AttrPath(name) ==
    CASE name = "directory" -> <<"frameInfo", ".", "directory">>
      [] name = "header" -> <<"frameInfo", ".", "fileInfoExtended", ".", "headerEntries">>
      [] name = "ndim" -> <<"frameInfo", ".", "fileInfoExtended", ".", "dimensions">>
      [] OTHER -> <<"frameInfo", ".", "fileInfoExtended", ".", name>>

CacheHas(cache, name) == \E p \in cache : p[1] = name

CacheGet(cache, name) == (CHOOSE p \in cache : p[1] = name)[2]

\* the value read is kept for the handle's lifetime
cached_store(st, name) ==
    IF Going(st) THEN [st EXCEPT !.cache = @ \cup {<<name, st.value>>}] ELSE st

\* a property that is read from the remote every time
cachedNever(st, img, name) ==
    IF ~Going(st) THEN st
    ELSE cached_store(Image_get_value(st, img, AttrPath(name)), name)

\* a @cached property: read once, then answered from the handle
cached(st, img, name) ==
    IF ~Going(st) THEN st
    ELSE IF CacheHas(st.cache, name) THEN Result(st, CacheGet(st.cache, name))
    ELSE cached_store(Image_get_value(st, img, AttrPath(name)), name)

----------------------------------------------------------------------------
(* The decorator validate *)

Attr(name) == <<"attr", name>>

\* Evaluate(Number, min, max, interval)
Evaluate(paramclass, min, max, interval) == <<"Evaluate", paramclass, min, max, interval>>

Min(a, b) == IF a < b THEN a ELSE b

\* param.validate(value, self) has run with result r: it returns, or its
\* exception is on its way up
Checked(st, d, value, r) ==
    IF r.kind = "ok"
    THEN [st EXCEPT !.checks = Append(@, <<d, value>>)]
    ELSE [st EXCEPT !.checks = Append(@, <<d, value>>),
                    !.outcome = r.kind, !.message = r.message, !.value = None]

\* lines 454-456: an Attr argument is getattr(parent, arg)
Evaluate_arg(st, img, arg) ==
    IF ~Going(st) THEN st
    ELSE IF arg[1] = "attr" THEN cached(st, img, arg[2])
    ELSE Result(st, arg)

\* lines 458-459: param = self.paramclass of the args; param.validate(value, parent)
Evaluate_param(st, d, min, value) ==
    IF Going(st)
    THEN Checked(st, Number(min, st.value, d[5]), value,
                 validate(Number(min, st.value, d[5]), value))
    ELSE st

Evaluate_max(st, img, d, value) ==
    IF Going(st) THEN Evaluate_param(Evaluate_arg(st, img, d[4]), d, st.value, value)
    ELSE st

\* Evaluate.validate(value, parent)
Evaluate_validate(st, img, d, value) ==
    Evaluate_max(Evaluate_arg(st, img, d[3]), img, d, value)

\* param.validate(value, self) as the next statement
Check(st, img, d, value) ==
    IF ~Going(st) THEN st
    ELSE IF d[1] = "Evaluate" THEN Evaluate_validate(st, img, d, value)
    ELSE Checked(st, d, value, validate(d, value))

\* line 498: kwvargs = {k:v for (k, v) in zip(getfullargspec(func).args, vargs)}
\* m.args is getfullargspec(func).args, "self" included
kwvargs_keys(m) == {m.args[i] : i \in 1..Min(Len(m.args), Len(m.vargs))}

kwvargs(m, key) == m.vargs[CHOOSE i \in 1..Len(m.args) : m.args[i] = key]

\* lines 503-504: for param, value in zip(vargs, args)
RECURSIVE CheckArgs(_, _, _, _, _)
CheckArgs(st, img, m, args, i) ==
    IF ~Going(st) \/ i > Min(Len(m.vargs), Len(args)) THEN st
    ELSE CheckArgs(Check(st, img, m.vargs[i], args[i]), img, m, args, i + 1)

\* lines 506-511: for key, value in kwargs.items()
RECURSIVE CheckKwargs(_, _, _, _, _)
CheckKwargs(st, img, m, kwargs, i) ==
    IF ~Going(st) \/ i > Len(kwargs) THEN st
    ELSE IF kwargs[i][1] \notin kwvargs_keys(m)
    THEN Throw(st, "CartaValidationFailed",
               <<"Unexpected keyword parameter: ", kwargs[i][1]>>)
    ELSE CheckKwargs(Check(st, img, kwvargs(m, kwargs[i][1]), kwargs[i][2]),
                     img, m, kwargs, i + 1)

\* where pat begins in msg first, and last at or after from; 0 if nowhere
At(msg, pat, i) == i + Len(pat) - 1 <= Len(msg) /\ SubSeq(msg, i, i + Len(pat) - 1) = pat

FirstAt(msg, pat) ==
    IF \E i \in 1..Len(msg) : At(msg, pat, i)
    THEN CHOOSE i \in 1..Len(msg) :
            At(msg, pat, i) /\ \A j \in 1..(i - 1) : ~At(msg, pat, j)
    ELSE 0

LastAt(msg, pat, from) ==
    IF \E i \in from..Len(msg) : At(msg, pat, i)
    THEN CHOOSE i \in from..Len(msg) :
            At(msg, pat, i) /\ \A j \in (i + 1)..Len(msg) : ~At(msg, pat, j)
    ELSE 0

Unwrapped(msg, opening, closing, i, j) ==
    IF i = 0 \/ j = 0 THEN msg
    ELSE SubSeq(msg, 1, i - 1) \o SubSeq(msg, i + Len(opening), j - 1)
            \o SubSeq(msg, j + Len(closing), Len(msg))

UnwrapFrom(msg, opening, closing, i) ==
    Unwrapped(msg, opening, closing, i, IF i = 0 THEN 0 ELSE LastAt(msg, closing, i + Len(opening)))

\* re.sub(opening(.*)closing, r"\1", msg) for a message of one line: the first
\* opening and the last closing after it are dropped
re_sub(msg, opening, closing) == UnwrapFrom(msg, opening, closing, FirstAt(msg, opening))

\* lines 515-516
StripMarkup(msg) ==
    re_sub(re_sub(msg, <<":obj:", Backtick>>, <<Backtick>>),
           <<Backtick, Backtick>>, <<Backtick, Backtick>>)

\* lines 512-517: except (TypeError, ValueError, AttributeError) as e
Caught(st) ==
    IF st.outcome \in {"TypeError", "ValueError", "AttributeError"}
    THEN Throw(st, "CartaValidationFailed",
               <<"Invalid function parameter: ">> \o StripMarkup(st.message))
    ELSE st

\* lines 502-517: the checks of newfunc(self, *args, **kwargs)
Validation(st, img, m, args, kwargs) ==
    Caught(CheckKwargs(CheckArgs(st, img, m, args, 1), img, m, kwargs, 1))

\* the parameters of func after self
Declared(m) == Tail(m.args)

Keys(kwargs) == {kwargs[i][1] : i \in 1..Len(kwargs)}

IndexOf(seq, x) == CHOOSE i \in 1..Len(seq) : seq[i] = x

KwValue(kwargs, key) == kwargs[CHOOSE i \in 1..Len(kwargs) : kwargs[i][1] = key][2]

\* func(self, *args, **kwargs) cannot be entered: too many positional
\* arguments, a keyword func does not declare, a parameter given twice, or a
\* parameter without default that is not given (a TypeError of the call)
BindError(m, args, kwargs) ==
    \/ Len(args) > Len(Declared(m))
    \/ \E k \in Keys(kwargs) : \A j \in 1..Len(Declared(m)) : Declared(m)[j] # k
    \/ \E j \in 1..Min(Len(args), Len(Declared(m))) : Declared(m)[j] \in Keys(kwargs)
    \/ \E j \in (Len(args) + 1)..Len(Declared(m)) :
            Declared(m)[j] \notin Keys(kwargs) \cup Keys(m.defaults)

\* the value func sees for its parameter name
Arg(m, args, kwargs, name) ==
    IF IndexOf(Declared(m), name) <= Len(args) THEN args[IndexOf(Declared(m), name)]
    ELSE IF name \in Keys(kwargs) THEN KwValue(kwargs, name)
    ELSE KwValue(m.defaults, name)

\* bool(v)
Truthy(v) ==
    CASE v[1] = "null"  -> FALSE
      [] v[1] = "bool"  -> v[2]
      [] v[1] = "int"   -> v[2] # 0
      [] v[1] = "float" -> Num(v).num # 0
      [] v[1] = "str"   -> v[2] # <<>>
      [] v[1] = "list"  -> v[2] # <<>>
      [] OTHER          -> TRUE

\* Image.set_colormap(colormap, invert)
set_colormap(st, img, colormap, invert) ==
    Result(Image_call_action(
               Image_call_action(st, img, <<"renderConfig", ".", "setColorMap">>,
                                 <<colormap>>, NoKwargs),
               img, <<"renderConfig", ".", "setInverted">>, <<invert>>, NoKwargs),
           None)

\* value or self.get_value(path)
value_or(st, img, value, path) ==
    IF ~Going(st) THEN st
    ELSE IF Truthy(value) THEN Result(st, value)
    ELSE Image_get_value(st, img, path)

\* line 846
setChannels(st, img, channel, recursive) ==
    IF Going(st)
    THEN Result(Image_call_action(st, img, <<"setChannels">>,
                                  <<channel, st.value, recursive>>, NoKwargs), None)
    ELSE st

\* line 845
requiredStokes(st, img, stokes, recursive) ==
    IF Going(st)
    THEN setChannels(value_or(st, img, stokes, <<"requiredStokes">>), img,
                     st.value, recursive)
    ELSE st

\* Image.set_channel_stokes(channel, stokes, recursive)
set_channel_stokes(st, img, channel, stokes, recursive) ==
    requiredStokes(value_or(st, img, channel, <<"requiredChannel">>), img,
                   stokes, recursive)

\* the decorated methods: their name, the parameters they declare, the
\* descriptors given to validate and the defaults of the signature
open_image ==
    [name |-> "open_image", args |-> <<"self", "path", "hdu">>,
     vargs |-> <<String(NoRegex, FALSE), String(ReDigits, FALSE)>>,
     defaults |-> << <<"hdu", <<"str", <<>>>>>> >>]

append_image ==
    [name |-> "append_image", args |-> <<"self", "path", "hdu">>,
     vargs |-> <<String(NoRegex, FALSE), String(ReDigits, FALSE)>>,
     defaults |-> << <<"hdu", <<"str", <<>>>>>> >>]

Image_set_colormap ==
    [name |-> "set_colormap", args |-> <<"self", "colormap", "invert">>,
     vargs |-> <<Constant(<<"carta.constants.Colormap">>, Colormap), Boolean>>,
     defaults |-> << <<"invert", <<"bool", FALSE>>>> >>]

Image_set_channel_stokes ==
    [name |-> "set_channel_stokes", args |-> <<"self", "channel", "stokes", "recursive">>,
     vargs |-> <<Evaluate("Number", <<"int", 0>>, Attr("depth"), INCLUDE_MIN),
                 Evaluate("Number", <<"int", 0>>, Attr("stokes"), INCLUDE_MIN),
                 Boolean>>,
     defaults |-> << <<"channel", None>>, <<"stokes", None>>,
                     <<"recursive", <<"bool", TRUE>>>> >>]

\* a callable decorated with fewer descriptors than it declares parameters:
\* @validate(Number()) on func(self, a, b), with a body that sends nothing
decorated ==
    [name |-> "func", args |-> <<"self", "a", "b">>,
     vargs |-> <<Number(None, None, INCLUDE)>>,
     defaults |-> <<>>]

\* Session.set_text(title, label_x, label_y)
Session_set_text ==
    [name |-> "set_text", args |-> <<"self", "title", "label_x", "label_y">>,
     vargs |-> <<NoneOr(String(NoRegex, FALSE)), NoneOr(String(NoRegex, FALSE)),
                 NoneOr(String(NoRegex, FALSE))>>,
     defaults |-> << <<"title", None>>, <<"label_x", None>>, <<"label_y", None>> >>]

setCustomTitleString == <<"overlayStore", ".", "title", ".", "setCustomTitleString">>

titleSetCustomText == <<"overlayStore", ".", "title", ".", "setCustomText">>

setCustomLabelX == <<"overlayStore", ".", "labels", ".", "setCustomLabelX">>

labelsSetCustomText == <<"overlayStore", ".", "labels", ".", "setCustomText">>

\* lines 404-406
set_text_title(st, title) ==
    IF title # None
    THEN Call(Call(st, setCustomTitleString, <<title>>, NoKwargs),
              titleSetCustomText, << <<"bool", TRUE>> >>, NoKwargs)
    ELSE st

\* lines 407-408
set_text_label_x(st, label_x) ==
    IF label_x # None THEN Call(st, setCustomLabelX, <<label_x>>, NoKwargs) ELSE st

\* lines 409-410
set_text_label_y(st, label_y) ==
    IF label_y # None THEN Call(st, setCustomLabelX, <<label_y>>, NoKwargs) ELSE st

\* lines 411-412
set_text_labels(st, label_x, label_y) ==
    IF label_x # None \/ label_y # None
    THEN Call(st, labelsSetCustomText, << <<"bool", TRUE>> >>, NoKwargs)
    ELSE st

set_text(st, title, label_x, label_y) ==
    Result(set_text_labels(
               set_text_label_y(set_text_label_x(set_text_title(st, title), label_x),
                                label_y),
               label_x, label_y),
           None)

Session_rendered_view_url ==
    [name |-> "rendered_view_url", args |-> <<"self", "background_color">>,
     vargs |-> <<NoneOr(Color)>>,
     defaults |-> << <<"background_color", None>> >>]

Session_rendered_view_data ==
    [name |-> "rendered_view_data", args |-> <<"self", "background_color">>,
     vargs |-> <<Color>>,
     defaults |-> << <<"background_color", None>> >>]

Session_save_rendered_view ==
    [name |-> "save_rendered_view", args |-> <<"self", "file_name", "background_color">>,
     vargs |-> <<String(NoRegex, FALSE), Color>>,
     defaults |-> << <<"background_color", None>> >>]

\* Session.rendered_view_url(background_color)
rendered_view_url(st, background_color) ==
    Call(Call(st, <<"waitForImageData">>, <<>>, NoKwargs),
         <<"getImageDataUrl">>,
         IF Truthy(background_color) THEN <<background_color>> ELSE <<>>,
         ResponseExpected)

\* text.split(sep)
RECURSIVE str_split(_, _)
str_split(text, sep) ==
    IF \A i \in 1..Len(text) : text[i] # sep THEN <<text>>
    ELSE LET k == CHOOSE i \in 1..Len(text) :
                      text[i] = sep /\ \A j \in 1..(i - 1) : text[j] # sep
         IN  <<SubSeq(text, 1, k - 1)>> \o str_split(SubSeq(text, k + 1, Len(text)), sep)

\* type(v).__name__
ClassName(v) ==
    CASE v[1] = "null"  -> <<"NoneType">>
      [] v[1] = "bool"  -> <<"bool">>
      [] v[1] = "int"   -> <<"int">>
      [] v[1] = "float" -> <<"float">>
      [] v[1] = "list"  -> <<"list">>
      [] v[1] = "dict"  -> <<"dict">>
      [] OTHER          -> <<"object">>

\* line 593: data = uri.split(",")[1]
uri_data(st) ==
    IF ~Going(st) THEN st
    ELSE IF st.value[1] # "str"
    THEN Throw(st, "AttributeError",
               <<"'">> \o ClassName(st.value) \o <<"' object has no attribute 'split'">>)
    ELSE IF Len(str_split(st.value[2], ",")) < 2
    THEN Throw(st, "IndexError", <<"list index out of range">>)
    ELSE Result(st, <<"str", str_split(st.value[2], ",")[2]>>)

\* the base64 alphabet: the character of value i is the (i+1)-th
b64chars ==
    <<"A", "B", "C", "D", "E", "F", "G", "H", "I", "J", "K", "L", "M",
      "N", "O", "P", "Q", "R", "S", "T", "U", "V", "W", "X", "Y", "Z",
      "a", "b", "c", "d", "e", "f", "g", "h", "i", "j", "k", "l", "m",
      "n", "o", "p", "q", "r", "s", "t", "u", "v", "w", "x", "y", "z",
      "0", "1", "2", "3", "4", "5", "6", "7", "8", "9", "+", "/">>

b64value(c) == (CHOOSE i \in 1..Len(b64chars) : b64chars[i] = c) - 1

\* the bytes of the characters of one group of four, or of the two or three
\* before the padding
b64bytes(quad) ==
    CASE Len(quad) = 2 -> <<quad[1] * 4 + quad[2] \div 16>>
      [] Len(quad) = 3 -> <<quad[1] * 4 + quad[2] \div 16,
                            (quad[2] % 16) * 16 + quad[3] \div 4>>
      [] Len(quad) = 4 -> <<quad[1] * 4 + quad[2] \div 16,
                            (quad[2] % 16) * 16 + quad[3] \div 4,
                            (quad[3] % 4) * 64 + quad[4]>>
      [] OTHER -> <<>>

\* binascii.a2b_base64 from character i on: characters outside the alphabet
\* are skipped, enough padding after two or three characters ends the data,
\* and a group left unfinished is an error
RECURSIVE a2b_base64(_, _, _, _, _)
a2b_base64(text, i, quad, pads, out) ==
    IF i > Len(text)
    THEN IF quad = <<>> THEN [ok |-> TRUE, bytes |-> out, message |-> <<>>]
         ELSE [ok |-> FALSE, bytes |-> <<>>,
               message |-> IF Len(quad) = 1
                           THEN <<"Invalid base64-encoded string: number of data characters">>
                           ELSE <<"Incorrect padding">>]
    ELSE IF text[i] = "="
    THEN IF Len(quad) >= 2 /\ pads + 1 >= 4 - Len(quad)
         THEN [ok |-> TRUE, bytes |-> out \o b64bytes(quad), message |-> <<>>]
         ELSE a2b_base64(text, i + 1, quad, pads + 1, out)
    ELSE IF \A k \in 1..Len(b64chars) : b64chars[k] # text[i]
    THEN a2b_base64(text, i + 1, quad, pads, out)
    ELSE IF Len(quad) = 3
    THEN a2b_base64(text, i + 1, <<>>, 0,
                    out \o b64bytes(Append(quad, b64value(text[i]))))
    ELSE a2b_base64(text, i + 1, Append(quad, b64value(text[i])), 0, out)

\* line 594: return base64.b64decode(data)
b64decode(st) ==
    IF ~Going(st) THEN st
    ELSE IF a2b_base64(st.value[2], 1, <<>>, 0, <<>>).ok
    THEN Result(st, <<"bytes", a2b_base64(st.value[2], 1, <<>>, 0, <<>>).bytes>>)
    ELSE Throw(st, "binascii.Error", a2b_base64(st.value[2], 1, <<>>, 0, <<>>).message)

RECURSIVE newfunc(_, _, _, _, _)

\* Session.rendered_view_data(background_color)
rendered_view_data(st, background_color) ==
    b64decode(uri_data(newfunc(st, NoImage, Session_rendered_view_url,
                               <<background_color>>, <<>>)))

\* line 607: with open(file_name, 'wb') as f
open_wb(st, file_name) ==
    IF file_name[2] = <<>>
    THEN Throw(st, "FileNotFoundError", <<"[Errno 2] No such file or directory: ''">>)
    ELSE [st EXCEPT !.files = Append(@, <<"open", file_name[2]>>)]

\* line 608: f.write(...) and the end of the with block
write_close(st) ==
    IF Going(st)
    THEN Result([st EXCEPT !.files = @ \o << <<"write", st.value[2]>>, <<"close">> >>],
                None)
    ELSE [st EXCEPT !.files = Append(@, <<"close">>)]

\* Session.save_rendered_view(file_name, background_color)
save_rendered_view(st, file_name, background_color) ==
    IF Going(open_wb(st, file_name))
    THEN write_close(newfunc(open_wb(st, file_name), NoImage,
                             Session_rendered_view_data, <<background_color>>, <<>>))
    ELSE open_wb(st, file_name)

\* the wrapped func(self, *args, **kwargs)
Body(st, img, m, args, kwargs) ==
    CASE m.name = "open_image" ->
            Image_new(st, Arg(m, args, kwargs, "path")[2],
                      Arg(m, args, kwargs, "hdu"), FALSE)
      [] m.name = "append_image" ->
            Image_new(st, Arg(m, args, kwargs, "path")[2],
                      Arg(m, args, kwargs, "hdu"), TRUE)
      [] m.name = "set_colormap" ->
            set_colormap(st, img, Arg(m, args, kwargs, "colormap"),
                         Arg(m, args, kwargs, "invert"))
      [] m.name = "set_channel_stokes" ->
            set_channel_stokes(st, img, Arg(m, args, kwargs, "channel"),
                               Arg(m, args, kwargs, "stokes"),
                               Arg(m, args, kwargs, "recursive"))
      [] m.name = "set_text" ->
            set_text(st, Arg(m, args, kwargs, "title"), Arg(m, args, kwargs, "label_x"),
                     Arg(m, args, kwargs, "label_y"))
      [] m.name = "rendered_view_url" ->
            rendered_view_url(st, Arg(m, args, kwargs, "background_color"))
      [] m.name = "rendered_view_data" ->
            rendered_view_data(st, Arg(m, args, kwargs, "background_color"))
      [] m.name = "save_rendered_view" ->
            save_rendered_view(st, Arg(m, args, kwargs, "file_name"),
                               Arg(m, args, kwargs, "background_color"))
      [] OTHER -> st

\* line 518: return func(self, *args, **kwargs)
Invoke(st, img, m, args, kwargs) ==
    IF ~Going(st) THEN st
    ELSE IF BindError(m, args, kwargs) THEN Throw(st, "TypeError", <<>>)
    ELSE Body([st EXCEPT !.ran = TRUE], img, m, args, kwargs)

\* newfunc(self, *args, **kwargs)
newfunc(st, img, m, args, kwargs) ==
    Invoke(Validation(st, img, m, args, kwargs), img, m, args, kwargs)

----------------------------------------------------------------------------
(* The decorated methods of Session and Image, run against a transport     *)
(* that answers the requests of one invocation in order.                   *)

FooAbs == <<"/", "d", "/", "f", "o", "o", ".", "f", "i", "t", "s">>

FooRel == <<"f", "o", "o", ".", "f", "i", "t", "s">>

RHome == <<"\"", "h", "o", "m", "e", "\"">>

RTmp == <<"\"", "t", "m", "p", "\"">>

R3 == <<"3">>

R2 == <<"2">>

\* the transport answers with response
Answer(response) == ActionReply(TRUE, <<>>, response)

Failures == {RpcError(ErrorDetails), ActionReply(FALSE, ServerMessage, <<>>)}

\* the answers in good, or the same with one request failing
ReplySeqs(good) ==
    {good} \cup {[good EXCEPT ![k] = bad] : k \in 1..Len(good), bad \in Failures}

IsRelative(p) == p[1] # "str" \/ p[2] = <<>> \/ p[2][1] # "/"

\* the answers to Image.new: the file list and the directory of each pwd(),
\* the identifier of the image, and the directory after the cd back
GoodOpen(p, id, dir) ==
    (IF IsRelative(p) THEN <<Answer(<<>>), Answer(RHome)>> ELSE <<>>)
        \o <<Answer(<<>>), Answer(RHome), Answer(id), Answer(<<>>), Answer(<<>>),
             Answer(dir), Answer(<<>>)>>

PathValues ==
    {<<"str", FooAbs>>, <<"str", FooRel>>, <<"str", <<"1", "2">>>>, <<"int", 5>>}

HduValues == {<<"str", <<>>>>, <<"str", <<"1">>>>, <<"str", <<"x">>>>}

\* the ways of passing two arguments x and y to a method of parameters kx, ky
TwoStyles == 1..5

TwoArgs(style, x, y) ==
    CASE style = 1 -> <<x>>
      [] style = 2 -> <<x, y>>
      [] style = 3 -> <<>>
      [] style = 4 -> <<x>>
      [] style = 5 -> <<>>

TwoKwargs(style, kx, x, ky, y) ==
    CASE style = 1 -> <<>>
      [] style = 2 -> <<>>
      [] style = 3 -> << <<kx, x>> >>
      [] style = 4 -> << <<ky, y>> >>
      [] style = 5 -> << <<kx, x>>, <<ky, y>> >>

\* the script has called the decorated method m; r is the invocation at its end
Invoked(m, args, kwargs, cache, r) ==
    /\ session' = [session EXCEPT !.browser = r.browser]
    /\ last' = [op |-> "method", m |-> m, args |-> args, kwargs |-> kwargs,
                before |-> session.browser, cache |-> cache,
                answers |-> r.answers, checks |-> r.checks, ran |-> r.ran,
                requests |-> r.requests, files |-> r.files, outcome |-> r.outcome,
                message |-> r.message, value |-> r.value]

\* the handle returned is the one the script holds from now on
Opened(m, args, kwargs, r) ==
    /\ Invoked(m, args, kwargs, NoCache, r)
    /\ image' = IF r.outcome = "return"
                THEN [open |-> TRUE, image_id |-> r.value[2],
                      file_name |-> r.value[3], cache |-> NoCache]
                ELSE image

\* session.open_image(...) and session.append_image(...)
OpenImage ==
    /\ last = NoOp
    /\ \E m \in {open_image, append_image}, p \in PathValues, h \in HduValues,
          style \in TwoStyles, id \in {R42, <<>>}, dir \in {RHome, RTmp} :
        \E replies \in ReplySeqs(GoodOpen(p, id, dir)) :
            Opened(m, TwoArgs(style, p, h), TwoKwargs(style, "path", p, "hdu", h),
                   newfunc(Start(session, NoCache, replies), NoImage, m,
                           TwoArgs(style, p, h),
                           TwoKwargs(style, "path", p, "hdu", h)))

\* a method of the handle has run: the attributes it read stay with the handle
ImageDid(m, args, kwargs, r) ==
    /\ Invoked(m, args, kwargs, image.cache, r)
    /\ image' = [image EXCEPT !.cache = r.cache]

ColormapValues ==
    {<<"str", <<"v", "i", "r", "i", "d", "i", "s">>>>, <<"str", <<"n", "o", "p", "e">>>>,
     <<"int", 1>>, None}

InvertValues == {<<"bool", TRUE>>, <<"bool", FALSE>>, <<"int", 2>>}

\* image.set_colormap(...)
SetColormap ==
    /\ last = NoOp
    /\ image.open
    /\ \E c \in ColormapValues, i \in InvertValues, style \in TwoStyles,
          replies \in ReplySeqs(<<Answer(<<>>), Answer(<<>>)>>) :
        ImageDid(Image_set_colormap, TwoArgs(style, c, i),
                 TwoKwargs(style, "colormap", c, "invert", i),
                 newfunc(Start(session, image.cache, replies), image,
                         Image_set_colormap, TwoArgs(style, c, i),
                         TwoKwargs(style, "colormap", c, "invert", i)))

ChannelValues ==
    {None, <<"int", 0>>, <<"int", 1>>, <<"int", 2>>, <<"int", 3>>, <<"int", -1>>}

StokesValues == {None, <<"int", 0>>, <<"int", 3>>}

\* the ways of passing channel, stokes and recursive
ChannelStyles == 1..7

ChannelArgs(style, c, s, rec) ==
    CASE style = 1 -> <<>>
      [] style = 2 -> <<c>>
      [] style = 3 -> <<c, s>>
      [] style = 4 -> <<c, s, rec>>
      [] style = 5 -> <<>>
      [] style = 6 -> <<c>>
      [] style = 7 -> <<c, s>>

ChannelKwargs(style, c, s, rec) ==
    CASE style = 5 -> << <<"channel", c>> >>
      [] style = 6 -> << <<"stokes", s>> >>
      [] style = 7 -> << <<"recursive", rec>> >>
      [] OTHER     -> <<>>

\* what the remote answers to the requests of set_channel_stokes: 3 to each
\* (an image of depth 3 with 3 Stokes), or the same with one request failing,
\* or 2 to the second (an image of depth 3 with 2 Stokes when both are read)
ChannelReplies ==
    ReplySeqs(<<Answer(R3), Answer(R3), Answer(R3), Answer(R3), Answer(R3)>>)
        \cup {<<Answer(R3), Answer(R2), Answer(R3), Answer(R3), Answer(R3)>>}

\* image.set_channel_stokes(...)
SetChannelStokes ==
    /\ last = NoOp
    /\ image.open
    /\ \E c \in ChannelValues, s \in StokesValues, rec \in {<<"bool", TRUE>>, <<"int", 2>>},
          style \in ChannelStyles, replies \in ChannelReplies :
        ImageDid(Image_set_channel_stokes, ChannelArgs(style, c, s, rec),
                 ChannelKwargs(style, c, s, rec),
                 newfunc(Start(session, image.cache, replies), image,
                         Image_set_channel_stokes, ChannelArgs(style, c, s, rec),
                         ChannelKwargs(style, c, s, rec)))

FuncValues == {<<"int", 1>>, <<"str", <<"x">>>>, None}

\* the ways of calling func(self, a, b)
FuncStyles == 1..7

FuncArgs(style, a, b) ==
    CASE style = 1 -> <<a, b>>
      [] style = 2 -> <<a>>
      [] style = 3 -> <<>>
      [] style = 4 -> <<a, b>>
      [] style = 5 -> <<a>>
      [] style = 6 -> <<a, b, b>>
      [] style = 7 -> <<>>

FuncKwargs(style, a, b) ==
    CASE style = 2 -> << <<"b", b>> >>
      [] style = 3 -> << <<"a", a>>, <<"b", b>> >>
      [] style = 4 -> << <<"c", b>> >>
      [] style = 7 -> << <<"b", b>>, <<"a", a>> >>
      [] OTHER     -> <<>>

\* obj.func(...)
CallFunc ==
    /\ last = NoOp
    /\ \E a \in FuncValues, b \in FuncValues, style \in FuncStyles :
        /\ Invoked(decorated, FuncArgs(style, a, b), FuncKwargs(style, a, b), NoCache,
                   newfunc(Start(session, NoCache, <<>>), NoImage, decorated,
                           FuncArgs(style, a, b), FuncKwargs(style, a, b)))
        /\ UNCHANGED image

NextImage == OpenImage \/ SetColormap \/ SetChannelStokes \/ CallFunc \/ Continue

SpecImage == InitValidate /\ [][NextImage]_vars

----------------------------------------------------------------------------
(* A handle in use: Image.call_action, Image.get_value, the cached         *)
(* properties and Image.close, on a handle the script already holds.  The  *)
(* handle keeps no record of having been closed; closed is what the script *)
(* knows (close has returned), kept beside the handle.                     *)

\* list(reversed(items))
RECURSIVE Reversed(_)
Reversed(items) ==
    IF items = <<>> THEN <<>> ELSE Append(Reversed(Tail(items)), Head(items))

\* items[:n]
SliceTo(items, n) ==
    IF n >= 0 THEN SubSeq(items, 1, Min(n, Len(items)))
    ELSE SubSeq(items, 1, IF Len(items) + n > 0 THEN Len(items) + n ELSE 0)

\* line 760: list(reversed([width, height, depth, stokes][:self.ndim]))
shape_value(st, items) ==
    IF ~Going(st) THEN st
    ELSE IF st.value[1] \notin {"int", "bool", "null"}
    THEN Throw(st, "TypeError", <<"slice indices must be integers">>)
    ELSE IF st.value[1] = "null" THEN Result(st, <<"list", Reversed(items)>>)
    ELSE Result(st, <<"list", Reversed(SliceTo(items, Num(st.value).num))>>)

shape_ndim(st, img, items) ==
    IF Going(st) THEN shape_value(cached(st, img, "ndim"), Append(items, st.value))
    ELSE st

shape_stokes(st, img, items) ==
    IF Going(st) THEN shape_ndim(cached(st, img, "stokes"), img, Append(items, st.value))
    ELSE st

shape_depth(st, img, items) ==
    IF Going(st) THEN shape_stokes(cached(st, img, "depth"), img, Append(items, st.value))
    ELSE st

shape_height(st, img) ==
    IF Going(st) THEN shape_depth(cached(st, img, "height"), img, <<st.value>>)
    ELSE st

\* Image.shape
Image_shape(st, img) ==
    IF CacheHas(st.cache, "shape") THEN Result(st, CacheGet(st.cache, "shape"))
    ELSE cached_store(shape_height(cached(st, img, "width"), img), "shape")

\* the cached properties of a handle
AttrNames ==
    {"directory", "header", "shape", "width", "height", "depth", "stokes", "ndim"}

\* getattr(image, name) for a cached property
Attribute(st, img, name) ==
    IF name = "shape" THEN Image_shape(st, img) ELSE cached(st, img, name)

\* line 650: self._frame = Macro("", self._base_path)
frame(img) == Macro(<<>>, base_path(img.image_id))

\* Image.close()
Image_close(st, img) == Result(Call(st, <<"closeFile">>, <<frame(img)>>, NoKwargs), None)

MaxCached == 2

CacheSize(cache) == Cardinality({p[1] : p \in cache})

\* Image(session, 42, "foo.fits"), as open_image left it
InitHandle ==
    /\ session = [session_id |-> 1, browser |-> "none"]
    /\ last = NoOp
    /\ image = [open |-> TRUE, image_id |-> <<"int", 42>>, file_name |-> FooRel,
                cache |-> NoCache, closed |-> FALSE]

\* what the script sees of an operation on the handle
HandleDid(op, input, r) ==
    /\ session' = [session EXCEPT !.browser = r.browser]
    /\ last' = [op |-> op, input |-> input, image_id |-> image.image_id,
                closed |-> image.closed, cache |-> image.cache,
                answers |-> r.answers, calls |-> r.calls, requests |-> r.requests,
                outcome |-> r.outcome, message |-> r.message, value |-> r.value]

HandlePaths == {<<"a">>, <<"a", ".", "b">>}

HandleArgs == {<<>>, << <<"int", 1>>, <<"str", <<"x">>>> >>}

HandleKwargs == {NoKwargs, ResponseExpected}

HandleEnvs == {EmptyReply, Answer(R42), RpcError(ErrorDetails)}

\* image.call_action(path, *args, **kwargs)
ImageCallAction ==
    /\ last = NoOp
    /\ \E path \in HandlePaths, args \in HandleArgs, kwargs \in HandleKwargs,
          env \in HandleEnvs :
        HandleDid("Image.call_action",
                  [path |-> path, args |-> args, kwargs |-> kwargs],
                  Image_call_action(Start(session, image.cache, <<env>>), image,
                                    path, args, kwargs))
    /\ UNCHANGED image

\* image.get_value(path)
ImageGetValue ==
    /\ last = NoOp
    /\ \E path \in HandlePaths, env \in HandleEnvs :
        HandleDid("Image.get_value", [path |-> path],
                  Image_get_value(Start(session, image.cache, <<env>>), image, path))
    /\ UNCHANGED image

\* what the remote answers to the reads of one property: the same value to
\* each, or a failure to one of them
AttrReplies ==
    ReplySeqs(<<Answer(R3), Answer(R3), Answer(R3), Answer(R3), Answer(R3)>>)
        \cup ReplySeqs(<<Answer(R2), Answer(R2), Answer(R2), Answer(R2), Answer(R2)>>)

\* the script has read a property: what was fetched stays with the handle
AttributeRead(name, r) ==
    /\ HandleDid("attribute", [name |-> name], r)
    /\ image' = [image EXCEPT !.cache = r.cache]

\* image.<name> for a cached property
ReadAttribute ==
    /\ last = NoOp
    /\ \E name \in AttrNames, replies \in AttrReplies :
        /\ CacheHas(image.cache, name) \/ CacheSize(image.cache) < MaxCached
        /\ AttributeRead(name, Attribute(Start(session, image.cache, replies), image, name))

\* a handle that forgets its image once closed
ClosedInvalidated(img, r) ==
    IF r.outcome = "return" THEN [img EXCEPT !.closed = TRUE, !.image_id = None] ELSE img

\* the handle after close(): nothing of it changes
Closed(img, r) == IF r.outcome = "return" THEN [img EXCEPT !.closed = TRUE] ELSE img

\* image.close()
ImageClose ==
    /\ last = NoOp
    /\ \E env \in HandleEnvs :
        /\ HandleDid("Image.close", [path |-> <<>>],
                     Image_close(Start(session, image.cache, <<env>>), image))
        /\ image' = Closed(image, Image_close(Start(session, image.cache, <<env>>), image))

NextHandle == ImageCallAction \/ ImageGetValue \/ ReadAttribute \/ ImageClose \/ Continue

SpecHandle == InitHandle /\ [][NextHandle]_vars

----------------------------------------------------------------------------
(* The text and the rendered view of the session *)

TextValues == {None, <<"str", <<"a">>>>, <<"str", <<"b">>>>, <<"int", 1>>}

\* the ways of passing title, label_x and label_y
TextStyles == 1..8

TextArgs(style, t, x, y) ==
    CASE style = 1 -> <<>>
      [] style = 2 -> <<t>>
      [] style = 3 -> <<t, x>>
      [] style = 4 -> <<t, x, y>>
      [] style = 5 -> <<>>
      [] style = 6 -> <<t>>
      [] style = 7 -> <<t, x>>
      [] style = 8 -> <<>>

TextKwargs(style, t, x, y) ==
    CASE style = 5 -> << <<"title", t>> >>
      [] style = 6 -> << <<"label_x", x>> >>
      [] style = 7 -> << <<"label_y", y>> >>
      [] style = 8 -> << <<"label_x", x>>, <<"title", t>> >>
      [] OTHER     -> <<>>

\* a method of the session has run
SessionDid(m, args, kwargs, r) ==
    /\ Invoked(m, args, kwargs, NoCache, r)
    /\ UNCHANGED image

\* session.set_text(...)
SetText ==
    /\ last = NoOp
    /\ \E t \in TextValues, x \in TextValues, y \in TextValues, style \in TextStyles,
          replies \in ReplySeqs(<<Answer(<<>>), Answer(<<>>), Answer(<<>>), Answer(<<>>),
                                  Answer(<<>>)>>) :
        SessionDid(Session_set_text, TextArgs(style, t, x, y), TextKwargs(style, t, x, y),
                   newfunc(Start(session, NoCache, replies), NoImage, Session_set_text,
                           TextArgs(style, t, x, y), TextKwargs(style, t, x, y)))

\* the data URL of an image of the three bytes 65, 66, 67, as JSON
RDataUrl == <<"\"", "data:image/png;base64", ",", "Q", "U", "J", "D", "\"">>

\* the same of two bytes, padded
RPadded == <<"\"", "data:image/png;base64", ",", "Q", "U", "I", "=", "\"">>

\* a data URL that has lost its last character
RCut == <<"\"", "data:image/png;base64", ",", "Q", "U", "J", "\"">>

\* a text that is no data URL
RNoComma == <<"\"", "n", "o", "p", "e", "\"">>

\* what the remote answers to waitForImageData and getImageDataUrl
ViewReplies ==
    ReplySeqs(<<Answer(<<>>), Answer(RDataUrl)>>)
        \cup {<<Answer(<<>>), Answer(r)>> : r \in {RPadded, RCut, RNoComma, R42, <<>>}}

BackgroundValues ==
    {None, <<"str", <<"r", "e", "d">>>>, <<"str", <<"n", "o", "p", "e">>>>,
     <<"str", <<>>>>, <<"int", 1>>}

\* the ways of passing background_color
ViewStyles == 1..3

ViewArgs(style, c) == IF style = 2 THEN <<c>> ELSE <<>>

ViewKwargs(style, c) == IF style = 3 THEN << <<"background_color", c>> >> ELSE <<>>

\* session.rendered_view_url(...) and session.rendered_view_data(...)
RenderedView ==
    /\ last = NoOp
    /\ \E m \in {Session_rendered_view_url, Session_rendered_view_data},
          c \in BackgroundValues, style \in ViewStyles, replies \in ViewReplies :
        SessionDid(m, ViewArgs(style, c), ViewKwargs(style, c),
                   newfunc(Start(session, NoCache, replies), NoImage, m,
                           ViewArgs(style, c), ViewKwargs(style, c)))

FileNames ==
    {<<"str", <<"o", "u", "t", ".", "p", "n", "g">>>>, <<"str", <<"r", "e", "d">>>>,
     <<"str", <<>>>>, None}

\* the ways of passing file_name and background_color
SaveStyles == 1..5

SaveArgs(style, f, c) ==
    CASE style = 1 -> <<f>>
      [] style = 2 -> <<f, c>>
      [] style = 3 -> <<>>
      [] style = 4 -> <<f>>
      [] style = 5 -> <<>>

SaveKwargs(style, f, c) ==
    CASE style = 3 -> << <<"file_name", f>> >>
      [] style = 4 -> << <<"background_color", c>> >>
      [] OTHER     -> <<>>

\* session.save_rendered_view(...)
SaveRenderedView ==
    /\ last = NoOp
    /\ \E f \in FileNames, c \in BackgroundValues, style \in SaveStyles,
          replies \in ViewReplies :
        SessionDid(Session_save_rendered_view, SaveArgs(style, f, c),
                   SaveKwargs(style, f, c),
                   newfunc(Start(session, NoCache, replies), NoImage,
                           Session_save_rendered_view, SaveArgs(style, f, c),
                           SaveKwargs(style, f, c)))

NextView == SetText \/ RenderedView \/ SaveRenderedView \/ Continue

SpecView == InitValidate /\ [][NextView]_vars

----------------------------------------------------------------------------
(* Properties *)

\* an operation that reached the transport: it sent a request and got the
\* transport's answer last.env
Sent == last.op \in {"call_action", "get_value"} /\ Len(last.requests) = 1

Replied == Sent /\ ~last.env.rpcerror

Count(events, e) == Cardinality({i \in 1..Len(events) : events[i] = e})

\* the position of the last "." of a path, 0 when it has none
LastDot(path) ==
    IF Contains(path, ".")
    THEN CHOOSE i \in 1..Len(path) :
            path[i] = "." /\ \A j \in (i + 1)..Len(path) : path[j] # "."
    ELSE 0

Parent(path) == SubSeq(path, 1, LastDot(path) - 1)

Leaf(path) == SubSeq(path, LastDot(path) + 1, Len(path))

ExpectsResponse(kwargs) ==
    "response_expected" \in DOMAIN kwargs /\ kwargs["response_expected"]

\* C1: whenever the reply has success false, the call raises CartaActionFailed
\* with the server message in it and json.loads is never called on the
\* response, whatever the response and whatever response_expected is.
C1_FailedReplyRaises ==
    (last.op = "call_action" /\ Replied /\ ~last.env.success) =>
        /\ last.outcome = "CartaActionFailed"
        /\ IsSubstring(last.env.message, last.message)
        /\ Count(last.events, "json.loads") = 0

C1_Witness ==
    /\ last.op = "call_action" /\ Replied /\ ~last.env.success
    /\ last.env.response = R42
    /\ ExpectsResponse(last.input.kwargs)
    /\ last.outcome = "CartaActionFailed"

\* C2: for a reply with success true and an empty response, the call raises
\* CartaBadResponse exactly when response_expected is true; when it is false
\* or not given, the call returns None.
C2_EmptyResponse ==
    (last.op = "call_action" /\ Replied /\ last.env.success /\ last.env.response = <<>>) =>
        IF ExpectsResponse(last.input.kwargs)
        THEN last.outcome = "CartaBadResponse"
        ELSE last.outcome = "return" /\ last.value = None

C2_Witness ==
    /\ last.op = "call_action" /\ Replied /\ last.env.success /\ last.env.response = <<>>
    /\ last.input.kwargs = NoKwargs
    /\ last.outcome = "return"

\* C3: for a reply with success true and a non-empty response, the call
\* returns the decoded value when the response is JSON ("42" gives 42,
\* "{\"a\":1}" gives {a: 1}, "[4, \"a\"]" gives [4, "a"]) and raises
\* CartaBadResponse with the response string in its message when it is not
\* ("nope", "{\"a\":1"), whatever response_expected is.
C3_NonEmptyResponse ==
    (last.op = "call_action" /\ Replied /\ last.env.success /\ last.env.response # <<>>) =>
        CASE last.env.response = R42 ->
                last.outcome = "return" /\ last.value = <<"int", 42>>
          [] last.env.response = RObject ->
                last.outcome = "return"
                    /\ last.value = <<"dict", << <<(<<"a">>), <<"int", 1>> >> >> >>
          [] last.env.response = RArray ->
                last.outcome = "return"
                    /\ last.value = <<"list", << <<"int", 4>>, <<"str", <<"a">>>> >> >>
          [] last.env.response \in {RNope, RTruncated} ->
                last.outcome = "CartaBadResponse"
                    /\ IsSubstring(last.env.response, last.message)
          [] OTHER -> FALSE

C3_Witness ==
    /\ last.op = "call_action" /\ Replied /\ last.env.success
    /\ last.env.response = RObject
    /\ ExpectsResponse(last.input.kwargs)
    /\ last.value = <<"dict", << <<(<<"a">>), <<"int", 1>> >> >> >>

\* C4: the request carries the path split at its last ".": for a path with a
\* "." the object path, a "." and the action name make up the path and the
\* action name holds no "."; a path with no "." is sent with the empty object
\* path and the whole path as action name.  Nothing else of the path is read.
C4_SplitAtLastDot ==
    (last.op = "call_action" /\ Sent) =>
        IF Contains(last.input.path, ".")
        THEN /\ last.requests[1].path \o <<".">> \o last.requests[1].action = last.input.path
             /\ ~Contains(last.requests[1].action, ".")
        ELSE /\ last.requests[1].path = <<>>
             /\ last.requests[1].action = last.input.path

C4_Witness ==
    /\ last.op = "call_action" /\ Sent
    /\ last.input.path = <<"a", "[", ".", "a", ".">>
    /\ last.requests[1].path = <<"a", "[", ".", "a">>
    /\ last.requests[1].action = <<>>

\* C5: an invocation of call_action hands at most one request to the stub,
\* and exactly one when it ends in a failure of the call: no second request
\* follows a transport error, a failed reply or a bad response.
C5_AtMostOneRequest ==
    last.op = "call_action" =>
        /\ Len(last.requests) <= 1
        /\ Count(last.events, "CallAction") = Len(last.requests)
        /\ last.outcome \in {"CartaActionFailed", "CartaBadResponse"} =>
                Len(last.requests) = 1

C5_Witness ==
    /\ last.op = "call_action"
    /\ last.env.rpcerror
    /\ last.outcome = "CartaActionFailed"
    /\ Len(last.requests) = 1

\* C6: an invocation of call_action that ends in a return, a transport error,
\* a failed reply or a bad response has opened exactly one channel, called the
\* stub on it and closed it before anything else; no invocation leaves a
\* channel open.
C6_OneChannelClosed ==
    last.op = "call_action" =>
        /\ Count(last.events, "channel.open") = Count(last.events, "channel.close")
        /\ last.outcome \in {"return", "CartaActionFailed", "CartaBadResponse"} =>
                /\ Count(last.events, "channel.open") = 1
                /\ SubSeq(last.events, 1, 3) = <<"channel.open", "CallAction", "channel.close">>

C6_Witness ==
    /\ last.op = "call_action"
    /\ last.env.rpcerror
    /\ last.outcome = "CartaActionFailed"
    /\ Count(last.events, "channel.close") = 1

\* C7: the message of every CartaActionFailed and CartaBadResponse the call
\* raises holds the object path, the action name and the serialized argument
\* list of the request.
C7_MessageNamesAction ==
    (last.op = "call_action" /\ last.outcome \in {"CartaActionFailed", "CartaBadResponse"}) =>
        /\ IsSubstring(last.requests[1].path \o <<".">> \o last.requests[1].action,
                       last.message)
        /\ IsSubstring(last.requests[1].parameters, last.message)
        /\ last.requests[1].parameters # <<>>

C7_Witness ==
    /\ last.op = "call_action"
    /\ last.outcome = "CartaBadResponse"
    /\ last.env.response = RNope
    /\ Len(last.input.args) = 2
    /\ IsSubstring(last.requests[1].parameters, last.message)

\* C8: when the channel raises a transport error or the reply has success
\* false, Session.close() runs after the channel is closed and before the
\* CartaActionFailed reaches the caller: a session with a browser closes it,
\* a session without one is left as it was.
C8_FailureClosesSession ==
    (last.op = "call_action" /\ Sent /\ (last.env.rpcerror \/ ~last.env.success)) =>
        /\ last.outcome = "CartaActionFailed"
        /\ Count(last.events, "Session.close") = 1
        /\ last.events[4] = "Session.close"
        /\ IF last.before = "none"
           THEN session.browser = "none" /\ Count(last.events, "browser.close") = 0
           ELSE session.browser = "closed" /\ last.events[5] = "browser.close"

C8_Witness ==
    /\ last.op = "call_action" /\ Sent /\ ~last.env.rpcerror /\ ~last.env.success
    /\ last.before = "open"
    /\ session.browser = "closed"

\* C9: get_value(path) makes one call_action, on the root store, with action
\* fetchParameter, response_expected true and one argument, the Macro of the
\* path's parent and leaf; an empty reply raises CartaBadResponse.
C9_GetValueFetchesMacro ==
    last.op = "get_value" =>
        /\ last.calls = << [path   |-> fetchParameter,
                            args   |-> << Macro(Parent(last.input.path), Leaf(last.input.path)) >>,
                            kwargs |-> ResponseExpected] >>
        /\ Len(last.requests) = 1
        /\ last.requests[1].path = <<>>
        /\ last.requests[1].action = fetchParameter
        /\ loads(last.requests[1].parameters)
             = [ok  |-> TRUE,
                val |-> <<"list",
                          << <<"dict",
                               << <<macroTarget, <<"str", Parent(last.input.path)>> >>,
                                  <<macroVariable, <<"str", Leaf(last.input.path)>> >> >> >> >> >>]
        /\ (last.env.success /\ last.env.response = <<>>) => last.outcome = "CartaBadResponse"
        /\ (last.env.success /\ last.env.response = R42) =>
                last.outcome = "return" /\ last.value = <<"int", 42>>

C9_Witness ==
    /\ last.op = "get_value"
    /\ last.input.path = <<"a", ".", "[", ".", "a">>
    /\ last.env.success /\ last.env.response = <<>>
    /\ last.outcome = "CartaBadResponse"

\* what the remote is to find in place of a value: the placeholder object for
\* a Macro, at any depth of a list, and the value itself otherwise
RECURSIVE Placeholder(_)
Placeholder(v) ==
    IF v[1] = "macro"
    THEN <<"dict", << <<macroTarget, <<"str", v[2]>> >>, <<macroVariable, <<"str", v[3]>> >> >> >>
    ELSE IF v[1] = "list"
    THEN <<"list", [i \in 1..Len(v[2]) |-> Placeholder(v[2][i])]>>
    ELSE v

\* C10: decoding the parameters of a request gives the argument list with
\* every Macro, at top level or inside a list, replaced by an object of
\* exactly the two fields macroTarget and macroVariable holding its target
\* and its variable, and every other value as it was given.
C10_MacroRoundTrip ==
    (last.op = "call_action" /\ Sent) =>
        loads(last.requests[1].parameters)
            = [ok |-> TRUE, val |-> Placeholder(<<"list", last.input.args>>)]

C10_Witness ==
    /\ last.op = "call_action" /\ Sent
    /\ last.input.args = << <<"list", << Macro(<<"a", "\"">>, <<"\\">>), <<"int", 42>> >> >> >>
    /\ loads(last.requests[1].parameters).ok

\* the validation the script has just run
RanValidate(tag) == last.op = "validate" /\ last.d[1] = tag

\* ten times a numeric value of NumberValues
Tenths(v) ==
    CASE v[1] = "int" -> 10 * v[2]
      [] v[1] = "bool" -> (IF v[2] THEN 10 ELSE 0)
      [] v = <<"float", <<"0", ".", "5">>>> -> 5
      [] v = <<"float", <<"2", ".", "5">>>> -> 25
      [] v = <<"float", <<"-", "0", ".", "5">>>> -> -5

\* v lies in the interval Number(min, max, interval) describes
AboveMin(v, min, interval) ==
    \/ min = None
    \/ (interval \in {INCLUDE_MIN, INCLUDE} /\ Tenths(v) >= 10 * min[2])
    \/ (interval \in {EXCLUDE, INCLUDE_MAX} /\ Tenths(v) > 10 * min[2])

BelowMax(v, max, interval) ==
    \/ max = None
    \/ (interval \in {INCLUDE_MAX, INCLUDE} /\ Tenths(v) <= 10 * max[2])
    \/ (interval \in {EXCLUDE, INCLUDE_MIN} /\ Tenths(v) < 10 * max[2])

\* C15: Number(min, max, interval).validate accepts a numeric value exactly
\* when it is >= min (min included) or > min (min excluded), and <= max (max
\* included) or < max (max excluded), for the four interval flags; a bound
\* that is None leaves its side open; a value outside is a ValueError.
C15_NumberInterval ==
    (RanValidate("Number") /\ last.value[1] \in {"int", "bool", "float"}) =>
        /\ last.kind \in {"ok", "ValueError"}
        /\ last.kind = "ok" <=>
            (/\ AboveMin(last.value, last.d[2], last.d[4])
             /\ BelowMax(last.value, last.d[3], last.d[4]))

\* 0 is rejected and 0.5 accepted by a minimum 0 that is excluded; here the
\* maximum 3, excluded, rejects 3
C15_Witness ==
    /\ RanValidate("Number")
    /\ last.d = Number(<<"int", 0>>, <<"int", 3>>, INCLUDE_MIN)
    /\ last.value = <<"int", 3>>
    /\ last.kind = "ValueError"

RECURSIVE Flatten(_)
Flatten(seqs) == IF Len(seqs) = 0 THEN <<>> ELSE Head(seqs) \o Flatten(Tail(seqs))

\* the options of a union that accept the value
Accepting(options, value) ==
    {i \in 1..Len(options) : validate(options[i], value).kind = "ok"}

\* the number of options a union tries: up to the first that accepts
Tried(options, accepting) ==
    IF accepting = {} THEN Len(options)
    ELSE CHOOSE i \in accepting : \A j \in accepting : i <= j

\* the validations of the first n options, in order
OptionTraces(options, value, n) ==
    Flatten([i \in 1..n |-> validate(options[i], value).trace])

\* the description of a union: its own if it has one, else its options'
UnionDescription(d) ==
    IF d[3] # None THEN d[3][2]
    ELSE Join([i \in 1..Len(d[2]) |-> description(d[2][i])], <<" or ">>)

UnionHolds(d, value, accepting) ==
    /\ last.kind = "ok" <=> accepting # {}
    /\ last.trace = <<d>> \o OptionTraces(d[2], value, Tried(d[2], accepting))
    /\ accepting = {} =>
        /\ last.kind = "ValueError"
        /\ IsSubstring(UnionDescription(d), last.message)

\* C16: Union(options).validate succeeds exactly when an option's validate
\* succeeds; the options are tried in order and none after the first success;
\* when every option fails (also when there is none) it raises ValueError
\* with the Union's description in the message (its own, else the options'
\* descriptions joined with " or ").
C16_UnionFirstSuccess ==
    RanValidate("Union") =>
        UnionHolds(last.d, last.value, Accepting(last.d[2], last.value))

\* True is refused by NoneParameter and then accepted by Boolean
C16_Witness ==
    /\ RanValidate("Union")
    /\ last.d = Union(<<NoneParameter, Boolean>>, None)
    /\ last.value = <<"bool", TRUE>>
    /\ last.kind = "ok"
    /\ last.trace = <<last.d, NoneParameter, Boolean>>

\* the elements the inner descriptor refuses
Failing(d, items) == {i \in 1..Len(items) : validate(d, items[i]).kind # "ok"}

FirstOf(S) == CHOOSE i \in S : \A j \in S : i <= j

IterableFails(d, items, k) ==
    /\ last.kind = validate(d[2], items[k]).kind
    /\ last.message = validate(d[2], items[k]).message
    /\ last.trace = <<d>> \o Flatten([i \in 1..k |-> validate(d[2], items[i]).trace])

IterableHolds(d, items, failing) ==
    /\ items = <<>> => last.kind = "ok"
    /\ last.kind = "ok" <=> failing = {}
    /\ failing = {} =>
        last.trace = <<d>> \o Flatten([i \in 1..Len(items) |-> validate(d[2], items[i]).trace])
    /\ failing # {} => IterableFails(d, items, FirstOf(failing))

\* C17: IterableOf(d).validate accepts the empty collection whatever d is,
\* accepts a collection exactly when d accepts each element, and at the first
\* element d refuses it stops with that element's failure: no later element
\* is validated.
C17_IterableOfStopsAtFirst ==
    (RanValidate("IterableOf") /\ last.value[1] = "list") =>
        IterableHolds(last.d, last.value[2], Failing(last.d[2], last.value[2]))

\* [7, 0] against IterableOf(Boolean): 7 is refused and 0 never looked at
C17_Witness ==
    /\ RanValidate("IterableOf")
    /\ last.d = IterableOf(Boolean)
    /\ last.value = <<"list", << <<"int", 7>>, <<"int", 0>> >> >>
    /\ last.kind = "TypeError"
    /\ last.trace = <<last.d, Boolean>>


\* the colours "red", "RED", "#ff0000", "#f00", "rgb(255,0,0)",
\* "rgb(100%,0%,0%)", "hsl(0,100%,50%)", "rgba(0,0,0,0.5)"
ColorForms ==
    { <<"r", "e", "d">>, <<"R", "E", "D">>,
      <<"#", "f", "f", "0", "0", "0", "0">>, <<"#", "f", "0", "0">>,
      TupleText(rgb, << <<"2", "5", "5">>, <<"0">>, <<"0">> >>),
      TupleText(rgb, << <<"1", "0", "0", "%">>, <<"0", "%">>, <<"0", "%">> >>),
      TupleText(hsl, << <<"0">>, <<"1", "0", "0", "%">>, <<"5", "0", "%">> >>),
      TupleText(rgb \o <<"a">>, << <<"0">>, <<"0">>, <<"0">>, <<"0", ".", "5">> >>) }

\* C18: Color().validate accepts the named colours whatever their case ("red"
\* and "RED"), the hex forms "#ff0000" and "#f00", and the tuples
\* "rgb(255,0,0)", "rgb(100%,0%,0%)", "hsl(0,100%,50%)", "rgba(0,0,0,0.5)".
C18_ColorAccepts ==
    (RanValidate("Union") /\ last.d = Color /\ last.value[1] = "str"
        /\ last.value[2] \in ColorForms) => last.kind = "ok"

\* the tuple a colour text of ColorTuples is written as: its function and its
\* parameters
FuncName(text) == SubSeq(text, 1, Find(text, "(") - 1)

Params(text) == Split(SubSeq(text, Find(text, "(") + 1, Len(text) - 1), ",")

IsTuple(text) ==
    /\ Contains(text, "(")
    /\ FuncName(text) \in ColorFuncs
    /\ text[Len(text)] = ")"
    /\ \A i \in 1..Len(Params(text)) : Params(text)[i] \in ColorParams

\* the components of ColorParams by what they are: "100%" is a percentage;
\* "0" and "1.5" are numbers in 0..255 and in 0..360; "400" is a number
\* outside both; "0" is a number in 0..1
ParamPercent(p) == p = <<"1", "0", "0", "%">>

ParamNumber(p) == ~ParamPercent(p)

ParamByte(p) == ParamNumber(p) /\ p # <<"4", "0", "0">>

ParamUnit(p) == p = <<"0">>

WrongArity(func, params) == Len(params) # (IF Len(func) = 3 THEN 3 ELSE 4)

BadRgb(func, params) ==
    /\ SubSeq(func, 1, 3) = rgb
    /\ Len(params) >= 3
    /\ ~(\A i \in 1..3 : ParamPercent(params[i]))
    /\ ~(\A i \in 1..3 : ParamByte(params[i]))

BadHue(func, params) ==
    SubSeq(func, 1, 3) = hsl /\ ParamNumber(params[1]) /\ ~ParamByte(params[1])

BadAlpha(func, params) ==
    Len(func) = 4 /\ Len(params) = 4 /\ ParamNumber(params[4]) /\ ~ParamUnit(params[4])

BadTuple(func, params) ==
    \/ WrongArity(func, params)
    \/ BadRgb(func, params)
    \/ BadHue(func, params)
    \/ BadAlpha(func, params)

notacolor == <<"n", "o", "t", "a", "c", "o", "l", "o", "r">>

Rejected ==
    /\ last.kind = "ValueError"
    /\ IsSubstring(<<"an HTML color specification">>, last.message)

\* C19: Color().validate rejects a colour tuple with the wrong number of
\* components, an rgb tuple whose components are neither all percentages nor
\* all numbers in 0..255, an hsl hue outside 0..360, an alpha outside 0..1,
\* and a text that is no colour at all; the rejection is a ValueError that
\* names 'an HTML color specification'.
C19_ColorRejects ==
    (RanValidate("Union") /\ last.d = Color /\ last.value[1] = "str") =>
        /\ (IsTuple(last.value[2])
                /\ BadTuple(FuncName(last.value[2]), Params(last.value[2])))
            => Rejected
        /\ last.value[2] = notacolor => Rejected

\* "rgb(400,0)"
C19_Witness ==
    /\ RanValidate("Union")
    /\ last.d = Color
    /\ last.value = <<"str", TupleText(rgb, << <<"4", "0", "0">>, <<"0">> >>)>>
    /\ Rejected

----------------------------------------------------------------------------
(* The decorated methods *)

\* the script has just called a decorated method
RanMethod == last.op = "method"

RanNamed(name) == last.op = "method" /\ last.m.name = name

\* the descriptor validate(...) gives for the i-th parameter after self
Described(m, key) ==
    /\ \E j \in 1..Len(Declared(m)) : Declared(m)[j] = key
    /\ IndexOf(Declared(m), key) <= Len(m.vargs)

DescriptorOf(m, key) == m.vargs[IndexOf(Declared(m), key)]

\* the arguments given by position that have a descriptor
PositionalPairs(m, args) ==
    [i \in 1..Min(Len(args), Len(m.vargs)) |-> <<m.vargs[i], args[i]>>]

\* the arguments given by keyword, each with the descriptor of the declared
\* parameter of that name
KeywordPairs(m, kwargs) ==
    [i \in 1..Len(kwargs) |-> <<DescriptorOf(m, kwargs[i][1]), kwargs[i][2]>>]

DescribedKeys(m, kwargs) == \A k \in Keys(kwargs) : Described(m, k)

\* the descriptor does not read the image, and the value fails it
FailsDescriptor(pair) == pair[1][1] # "Evaluate" /\ validate(pair[1], pair[2]).kind # "ok"

SomeFails(pairs) == \E i \in 1..Len(pairs) : FailsDescriptor(pairs[i])

\* an argument of the call fails the descriptor of its parameter
ArgumentFails ==
    \/ SomeFails(PositionalPairs(last.m, last.args))
    \/ \E i \in 1..Len(last.kwargs) :
        /\ Described(last.m, last.kwargs[i][1])
        /\ FailsDescriptor(<<DescriptorOf(last.m, last.kwargs[i][1]), last.kwargs[i][2]>>)

\* C11: when an argument of a decorated Session or Image method fails its
\* descriptor, the method raises CartaValidationFailed; and whenever a
\* decorated method raises CartaValidationFailed, the wrapped body has not
\* run and no request has been sent during the invocation, not even by the
\* validation (set_channel_stokes included).
C11_NoRequestOnValidationFailure ==
    RanMethod =>
        /\ ArgumentFails => last.outcome = "CartaValidationFailed"
        /\ last.outcome = "CartaValidationFailed" =>
                ~last.ran /\ last.requests = <<>>

\* the colormap argument of the call, however it was given
ColormapGiven ==
    IF Len(last.args) >= 1 THEN last.args[1] ELSE KwValue(last.kwargs, "colormap")

\* invert is left out or is a boolean value
InvertAccepted ==
    /\ Len(last.args) >= 2 => validate(Boolean, last.args[2]).kind = "ok"
    /\ "invert" \in Keys(last.kwargs) =>
            validate(Boolean, KwValue(last.kwargs, "invert")).kind = "ok"

\* C12: set_colormap with a colormap that is no value of the Colormap table
\* raises CartaValidationFailed and sends no request; with a value of the
\* table (and an acceptable invert) it passes validation and sends
\* setColorMap first and setInverted second.
C12_SetColormap ==
    RanNamed("set_colormap") =>
        /\ ~PyIn(ColormapGiven, Colormap) =>
                last.outcome = "CartaValidationFailed" /\ last.requests = <<>>
        /\ (PyIn(ColormapGiven, Colormap) /\ InvertAccepted) =>
                /\ last.outcome # "CartaValidationFailed"
                /\ Len(last.requests) \in 1..2
                /\ last.requests[1].action = <<"setColorMap">>
                /\ Len(last.requests) = 2 => last.requests[2].action = <<"setInverted">>
                /\ last.outcome = "return" => Len(last.requests) = 2

\* the checks the call is to make: positional arguments first, then the
\* keyword arguments against the descriptors of their declared parameters
DeclaredChecks == PositionalPairs(last.m, last.args) \o KeywordPairs(last.m, last.kwargs)

NoEvaluate(m) == \A i \in 1..Len(m.vargs) : m.vargs[i][1] # "Evaluate"

\* C13: an argument passed by keyword is validated against the descriptor of
\* the declared parameter of that name (the i-th descriptor for the i-th
\* parameter after self), so the call is accepted or rejected exactly as
\* with the value in that parameter's position.
C13_KeywordAsPositional ==
    (RanMethod /\ last.kwargs # <<>> /\ NoEvaluate(last.m)
              /\ DescribedKeys(last.m, last.kwargs)) =>
        /\ Len(last.checks) <= Len(DeclaredChecks)
        /\ \A i \in 1..Len(last.checks) : last.checks[i] = DeclaredChecks[i]
        /\ (last.outcome = "CartaValidationFailed") <=> SomeFails(DeclaredChecks)

\* a parameter func declares, for which validate(...) was given no descriptor
Undescribed(m, key) ==
    /\ \E j \in 1..Len(Declared(m)) : Declared(m)[j] = key
    /\ IndexOf(Declared(m), key) > Len(m.vargs)

\* the call gives a parameter without descriptor, the arguments with a
\* descriptor are given by position and pass, and it is a call Python accepts
UndescribedGiven ==
    /\ Len(last.args) > Len(last.m.vargs) \/ last.kwargs # <<>>
    /\ \A k \in Keys(last.kwargs) : Undescribed(last.m, k)
    /\ ~SomeFails(PositionalPairs(last.m, last.args))
    /\ ~BindError(last.m, last.args, last.kwargs)

\* C14: a declared parameter without descriptor goes through to the wrapped
\* callable unchecked, given by position or by keyword; only a keyword that
\* names no declared parameter is a validation failure.
C14_UndescribedPassThrough ==
    (RanMethod /\ NoEvaluate(last.m)) =>
        /\ UndescribedGiven => last.ran /\ last.outcome # "CartaValidationFailed"
        /\ (\E k \in Keys(last.kwargs) :
                \A j \in 1..Len(Declared(last.m)) : Declared(last.m)[j] # k)
            => last.outcome = "CartaValidationFailed"

\* session.open_image("/d/foo.fits") or session.append_image("/d/foo.fits")
FooCall ==
    /\ RanMethod
    /\ last.m.name \in {"open_image", "append_image"}
    /\ last.args = << <<"str", FooAbs>> >>
    /\ last.kwargs = <<>>

\* the text ["/d", "foo.fits", ""]
FooParameters ==
    <<"[", "\"", "/", "d", "\"", ",", " ", "\"", "f", "o", "o", ".", "f", "i", "t", "s",
      "\"", ",", " ", "\"", "\"", "]">>

OpenAction == IF last.m.name = "append_image" THEN <<"appendFile">> ELSE <<"openFile">>

\* the value call_action makes of an answer that succeeded
IdOf(answer) == IF answer.response = <<>> THEN None ELSE loads(answer.response).val

AnswerFailed(answer) == answer.rpcerror \/ ~answer.success

\* C20: open_image("/d/foo.fits") without HDU sends, once the current
\* directory is read, one request with empty path, action openFile
\* (appendFile for append_image) and parameters ["/d", "foo.fits", ""]; the
\* handle returned has the value decoded from the answer to that request as
\* its identifier (42 for "42"); no handle is returned when that request
\* fails or is never sent.
C20_OpenImageRequestAndHandle ==
    FooCall =>
        /\ last.ran
        /\ Len(last.requests) >= 3 =>
                /\ last.requests[3].path = <<>>
                /\ last.requests[3].action = OpenAction
                /\ last.requests[3].parameters = FooParameters
        /\ \A k \in 1..Len(last.requests) :
                k # 3 => last.requests[k].action \notin {<<"openFile">>, <<"appendFile">>}
        /\ (Len(last.answers) >= 2 /\ ~AnswerFailed(last.answers[1])
                /\ ~AnswerFailed(last.answers[2]))
            => Len(last.requests) >= 3
        /\ last.outcome = "return" =>
                /\ Len(last.answers) >= 3
                /\ ~AnswerFailed(last.answers[3])
                /\ last.value = <<"image", IdOf(last.answers[3]), FooRel>>
                /\ last.answers[3].response = R42 => last.value[2] = <<"int", 42>>
                /\ image = [open |-> TRUE, image_id |-> last.value[2],
                            file_name |-> FooRel, cache |-> NoCache]
        /\ (Len(last.answers) < 3 \/ AnswerFailed(last.answers[3])) =>
                last.outcome # "return" /\ last.value = None

C20_Witness ==
    /\ FooCall
    /\ last.m.name = "open_image"
    /\ last.outcome = "return"
    /\ last.requests[3].action = <<"openFile">>
    /\ last.value = <<"image", <<"int", 42>>, FooRel>>

----------------------------------------------------------------------------
(* Number: the two signals; Color: the hex forms *)

\* float(value) succeeds
Convertible(v) == IsNumber(v) \/ (v[1] = "str" /\ float_str(v[2]).ok)

\* C24: Number.validate rejects every value that float() cannot convert,
\* a non-numeric string included, with TypeError, and a value that float()
\* converts is never rejected with TypeError: it is accepted or rejected
\* with ValueError by the bound checks alone.
C24_NumberSignals ==
    RanValidate("Number") =>
        /\ ~Convertible(last.value) => last.kind = "TypeError"
        /\ Convertible(last.value) => last.kind \in {"ok", "ValueError"}

\* '#' and exactly 3 or exactly 6 hexadecimal digits, in either case
HexTriplet(t) ==
    /\ Len(t) \in {4, 7}
    /\ t[1] = "#"
    /\ \A i \in 2..Len(t) : LowerOf(t[i]) \in HexChars

\* C30: Color().validate accepts a string with a '#' only when the whole
\* string is '#' followed by exactly 6 or exactly 3 hexadecimal digits, and
\* rejects a colour tuple that is followed by more text.
C30_ColorWholeString ==
    (last.op = "validate" /\ last.d = Color /\ last.value[1] = "str") =>
        /\ Contains(last.value[2], "#") =>
                (last.kind = "ok" <=> HexTriplet(last.value[2]))
        /\ (Contains(last.value[2], "(") /\ Contains(last.value[2], ")")
                /\ last.value[2][Len(last.value[2])] # ")") => last.kind # "ok"

----------------------------------------------------------------------------
(* Image.new and the current directory *)

\* the script has called open_image or append_image and the body has run
OpenRan ==
    /\ RanMethod
    /\ last.m.name \in {"open_image", "append_image"}
    /\ last.ran

IsOpenRequest(k) == last.requests[k].action \in {<<"openFile">>, <<"appendFile">>}

IsSaveRequest(k) == last.requests[k].action = <<"saveStartingDirectory">>

OpenSent == \E k \in 1..Len(last.requests) : IsOpenRequest(k)

OpenIndex == CHOOSE k \in 1..Len(last.requests) : IsOpenRequest(k)

\* the text ["/<directory>"] for the directory an answer reports
SavedParameters(answer) ==
    <<"[", "\"", "/">> \o loads(answer.response).val[2] \o <<"\"", "]">>

\* the directory is read right before the open request, and read well
ReadBefore(k) ==
    /\ k >= 3
    /\ last.requests[k - 2].path = <<"fileBrowserStore">>
    /\ last.requests[k - 2].action = <<"getFileList">>
    /\ last.requests[k - 1].action = fetchParameter
    /\ ~AnswerFailed(last.answers[k - 2])
    /\ ~AnswerFailed(last.answers[k - 1])

\* after the open request the saved directory is set again; a further
\* saveStartingDirectory is sent only when the remote then reports another
\* directory, and it carries the directory reported
RestoredAfter(k) ==
    /\ Len(last.requests) >= k + 1
    /\ IsSaveRequest(k + 1)
    /\ last.requests[k + 1].path = <<"fileBrowserStore">>
    /\ last.requests[k + 1].parameters = SavedParameters(last.answers[k - 1])
    /\ \A j \in (k + 2)..Len(last.requests) :
            IsSaveRequest(j) =>
                /\ j = k + 4
                /\ last.answers[k + 3].response # last.answers[k - 1].response
                /\ last.requests[j].parameters = SavedParameters(last.answers[k + 3])
    /\ (last.outcome = "return"
            /\ last.answers[k + 3].response = last.answers[k - 1].response)
        => Len(last.requests) = k + 3

----------------------------------------------------------------------------
(* The handle in use *)

\* the path a handle of identifier 42 puts before p
Prefixed(p) == <<"frameMap[", "4", "2", "]", ".">> \o p

\* the result of an operation on the handle is that of the session's
\* operation r
SameResult(r) ==
    /\ last.calls = r.calls
    /\ last.requests = r.requests
    /\ last.outcome = r.outcome
    /\ last.message = r.message
    /\ last.value = r.value

\* the one request of the operation went out under the handle's prefix
SentPrefixed(target, action, parameters) ==
    /\ Len(last.requests) = 1
    /\ last.requests[1].path = target
    /\ last.requests[1].action = action
    /\ last.requests[1].parameters = parameters

\* image.call_action(p, ...) is session.call_action("frameMap[42]." + p, ...)
CallForwarded ==
    last.op = "Image.call_action" =>
        /\ SameResult(call_action(session, Prefixed(last.input.path), last.input.args,
                                  last.input.kwargs, last.answers[1]))
        /\ last.calls = <<[path |-> Prefixed(last.input.path),
                           args |-> last.input.args, kwargs |-> last.input.kwargs]>>
        /\ SentPrefixed(split_path(Prefixed(last.input.path))[1],
                        split_path(Prefixed(last.input.path))[2],
                        dumps(<<"list", last.input.args>>).text)
        /\ last.requests[1].path[1] = "frameMap["

\* image.get_value(p) is session.get_value("frameMap[42]." + p)
GetForwarded ==
    last.op = "Image.get_value" =>
        /\ SameResult(get_value(session, Prefixed(last.input.path), last.answers[1]))
        /\ SentPrefixed(<<>>, fetchParameter,
                        dumps(<<"list",
                                <<Macro(split_path(Prefixed(last.input.path))[1],
                                        split_path(Prefixed(last.input.path))[2])>>
                              >>).text)

\* the handle is the one constructed
BasePathFixed ==
    /\ image.open
    /\ image.image_id = <<"int", 42>>
    /\ base_path(image.image_id) = <<"frameMap[", "4", "2", "]">>
    /\ last # NoOp => last.image_id = <<"int", 42>>

\* C21: Image.call_action(p, args, kwargs) and Image.get_value(p) are
\* Session.call_action and Session.get_value on the path
\* "frameMap[<image_id>]." + p, with the arguments and the keyword options as
\* given and the result as the session returns it; no operation on the
\* handle changes its base path.
C21_ImageForwards == CallForwarded /\ GetForwarded /\ BasePathFixed

C21_Witness ==
    /\ last.op = "Image.call_action"
    /\ last.input.kwargs = ResponseExpected
    /\ last.input.args # <<>>
    /\ last.outcome = "return"
    /\ last.value = <<"int", 42>>

\* the property was read before this operation
WasCached(name) == CacheHas(last.cache, name)

\* the requests are reads of different properties
DistinctRequests ==
    \A i, j \in 1..Len(last.requests) :
        i # j => last.requests[i].parameters # last.requests[j].parameters

\* the properties a read of name needs from the remote
Needed(name) ==
    IF name = "shape"
    THEN {n \in {"width", "height", "depth", "stokes", "ndim"} : ~WasCached(n)}
    ELSE {name}

\* C22: a cached property of a handle is fetched at most once: a read of a
\* property not read before sends one fetch for each value it needs and
\* keeps what it gets; every later read returns the value kept and sends
\* nothing, whatever the remote would answer; and no operation on the
\* handle, close included, drops or replaces a value kept.
C22_CachedOnce ==
    /\ (last # NoOp) => \A p \in last.cache : p \in image.cache
    /\ \A p, q \in image.cache : p[1] = q[1] => p = q
    /\ (last # NoOp /\ last.op # "attribute") => image.cache = last.cache
    /\ (last.op = "attribute" /\ WasCached(last.input.name)) =>
            /\ last.requests = <<>>
            /\ last.outcome = "return"
            /\ last.value = CacheGet(last.cache, last.input.name)
            /\ image.cache = last.cache
    /\ (last.op = "attribute" /\ ~WasCached(last.input.name)) =>
            /\ Len(last.requests) <= Cardinality(Needed(last.input.name))
            /\ DistinctRequests
            /\ \A i \in 1..Len(last.requests) : last.requests[i].action = fetchParameter
            /\ last.outcome = "return" =>
                    /\ Len(last.requests) = Cardinality(Needed(last.input.name))
                    /\ <<last.input.name, last.value>> \in image.cache
            /\ last.outcome # "return" =>
                    /\ Len(last.requests) >= 1
                    /\ ~CacheHas(image.cache, last.input.name)

C22_Witness ==
    /\ last.op = "attribute"
    /\ last.input.name = "depth"
    /\ last.closed
    /\ WasCached("depth")
    /\ last.requests = <<>>
    /\ last.value = <<"int", 3>>

\* the text [{"macroTarget": "", "macroVariable": "frameMap[42]"}]
FrameParameters ==
    <<"[", "{", "\"">> \o macroTarget \o <<"\"", ":", " ", "\"", "\"", ",", " ", "\"">>
        \o macroVariable
        \o <<"\"", ":", " ", "\"", "frameMap[", "4", "2", "]", "\"", "}", "]">>

\* C29: Image.close() sends one closeFile request on the root store with the
\* handle's frame placeholder as argument, and after it has returned every
\* call_action and get_value on the handle is still sent to the remote
\* under the prefix frameMap[<image_id>] and ends as the session's
\* operation ends: no error is raised on the client for the closed handle.
C29_NoSelfInvalidation ==
    /\ last.op = "Image.close" =>
            /\ SentPrefixed(<<>>, <<"closeFile">>, FrameParameters)
            /\ last.outcome = "return" => image.closed /\ last.value = None
    /\ image.image_id = <<"int", 42>>
    /\ (last.op = "Image.call_action" /\ last.closed) =>
            /\ Len(last.requests) = 1
            /\ last.requests[1].path[1] = "frameMap["
            /\ last.requests[1].path = split_path(Prefixed(last.input.path))[1]
            /\ last.outcome \in
                    {call_action(session, Prefixed(last.input.path), last.input.args,
                                 last.input.kwargs, last.answers[1]).outcome}
    /\ (last.op = "Image.get_value" /\ last.closed) =>
            /\ Len(last.requests) = 1
            /\ last.requests[1].action = fetchParameter
            /\ last.outcome \in
                    {get_value(session, Prefixed(last.input.path),
                               last.answers[1]).outcome}

C29_Witness ==
    /\ last.op = "Image.get_value"
    /\ last.closed
    /\ last.outcome = "return"
    /\ Len(last.requests) = 1

----------------------------------------------------------------------------
(* set_channel_stokes *)

\* the caller has given the parameter name, by position or by keyword
Given(name) ==
    \/ IndexOf(Declared(last.m), name) <= Len(last.args)
    \/ name \in Keys(last.kwargs)

\* the value the body sees for the parameter name
Passed(name) == Arg(last.m, last.args, last.kwargs, name)

\* 0 <= v < max for an integer v
InRange(v, max) == v[1] = "int" /\ 0 <= v[2] /\ v[2] < Num(max).num

\* the handle knew its depth and its number of Stokes before the call
BoundsKnown == CacheHas(last.cache, "depth") /\ CacheHas(last.cache, "stokes")

\* C23: on an image whose depth and number of Stokes are known,
\* set_channel_stokes (with a boolean recursive) passes validation exactly
\* when the channel given is an integer with 0 <= channel < depth and the
\* Stokes given is an integer with 0 <= stokes < stokes of that image,
\* however the two are passed.
C23_RuntimeBounds ==
    (RanNamed("set_channel_stokes") /\ BoundsKnown
            /\ Passed("recursive") = <<"bool", TRUE>>) =>
        (last.outcome # "CartaValidationFailed"
            <=> /\ Given("channel") =>
                        InRange(Passed("channel"), CacheGet(last.cache, "depth"))
                /\ Given("stokes") =>
                        InRange(Passed("stokes"), CacheGet(last.cache, "stokes")))

\* the parameters of the request that reads name of the image
FetchOf(name) ==
    dumps(<<"list", <<Macro(base_path(image.image_id), <<name>>)>> >>).text

Fetched(name) ==
    \E i \in 1..Len(last.requests) :
        /\ last.requests[i].action = fetchParameter
        /\ last.requests[i].parameters = FetchOf(name)

\* C25: a set_channel_stokes that returns has sent one setChannels request,
\* its last, with the channel, the Stokes and recursive the caller gave;
\* requiredChannel is read exactly when no channel was given and
\* requiredStokes exactly when no Stokes was given, so a channel 0 and a
\* Stokes 0 are sent as 0.
C25_SetChannels ==
    (RanNamed("set_channel_stokes") /\ last.outcome = "return") =>
        /\ Cardinality({i \in 1..Len(last.requests) :
                            last.requests[i].action = <<"setChannels">>}) = 1
        /\ last.requests[Len(last.requests)].action = <<"setChannels">>
        /\ Fetched("requiredChannel") <=> Passed("channel") = None
        /\ Fetched("requiredStokes") <=> Passed("stokes") = None
        /\ (Passed("channel") # None /\ Passed("stokes") # None) =>
                last.requests[Len(last.requests)].parameters
                    = dumps(<<"list", <<Passed("channel"), Passed("stokes"),
                                        Passed("recursive")>> >>).text

----------------------------------------------------------------------------
(* set_text and the rendered view *)

\* what a request carries: its store, its action and its parameters
SentRequest(i) ==
    <<last.requests[i].path, last.requests[i].action, last.requests[i].parameters>>

\* the request of the action at path with the one argument v
Expected(path, v) ==
    <<split_path(path)[1], split_path(path)[2], dumps(<<"list", <<v>> >>).text>>

setCustomLabelY == <<"overlayStore", ".", "labels", ".", "setCustomLabelY">>

\* the requests of set_text(title, label_x, label_y) as documented
TextRequests(title, label_x, label_y) ==
    (IF title # None
     THEN <<Expected(setCustomTitleString, title),
            Expected(titleSetCustomText, <<"bool", TRUE>>)>>
     ELSE <<>>)
    \o (IF label_x # None THEN <<Expected(setCustomLabelX, label_x)>> ELSE <<>>)
    \o (IF label_y # None THEN <<Expected(setCustomLabelY, label_y)>> ELSE <<>>)
    \o (IF label_x # None \/ label_y # None
        THEN <<Expected(labelsSetCustomText, <<"bool", TRUE>>)>>
        ELSE <<>>)

\* C26: a set_text(title, label_x, label_y) that returns has sent, in this
\* order and nothing else: for a title that is not None the title text and
\* setCustomText(true) on the title store; for a label_x that is not None
\* setCustomLabelX with it; for a label_y that is not None setCustomLabelY
\* with it; and setCustomText(true) on the labels store exactly when label_x
\* or label_y is not None.
C26_SetText ==
    (RanNamed("set_text") /\ last.outcome = "return") =>
        /\ Len(last.requests)
                = Len(TextRequests(Passed("title"), Passed("label_x"), Passed("label_y")))
        /\ \A i \in 1..Len(last.requests) :
                SentRequest(i) = TextRequests(Passed("title"), Passed("label_x"),
                                       Passed("label_y"))[i]

\* a call of one of the three methods of the rendered view with its
\* arguments passed by position and a usable file name
ViewCall ==
    /\ last.op = "method"
    /\ last.m \in {Session_rendered_view_url, Session_rendered_view_data,
                    Session_save_rendered_view}
    /\ last.kwargs = <<>>
    /\ last.m = Session_save_rendered_view =>
            /\ Len(last.args) >= 1
            /\ last.args[1][1] = "str"
            /\ last.args[1][2] # <<>>

\* None or a valid colour
BackgroundAccepted(c) == c = None \/ validate(Color, c).kind = "ok"

\* C27: the three methods of the rendered view accept the same background
\* colours, None or a valid colour; save_rendered_view(file_name) without a
\* colour raises no validation failure, sends waitForImageData and then
\* getImageDataUrl without argument, and when it returns has written the
\* decoded data to the file (the bytes 65, 66, 67 for the data QUJD).
C27_RenderedView ==
    ViewCall =>
        /\ last.outcome # "CartaValidationFailed"
                <=> BackgroundAccepted(Passed("background_color"))
        /\ (last.m = Session_save_rendered_view /\ Len(last.args) = 1) =>
                /\ Len(last.requests) >= 1
                /\ last.requests[1].action = <<"waitForImageData">>
                /\ Len(last.requests) >= 2 =>
                        /\ last.requests[2].action = <<"getImageDataUrl">>
                        /\ last.requests[2].parameters = <<"[", "]">>
                /\ (Len(last.answers) = 2 /\ last.answers[2] = Answer(RDataUrl)
                        /\ last.answers[1] = Answer(<<>>)) =>
                        /\ last.outcome = "return"
                        /\ last.files = << <<"open", last.args[1][2]>>,
                                           <<"write", <<65, 66, 67>>>>, <<"close">> >>

====
